---- MODULE Spec2Model ----
(***************************************************************************)
(* The queue reconciliation engine of vibe-dj: the queue and playback      *)
(* pollers (useSpotifyQueue, useSpotifyPlayback), the queue-membership     *)
(* tracker (useQueueTrackingStore), the optimistic enqueue (useAddToQueue, *)
(* addTracksToQueue, addMultipleToQueue), skip-to-track (useSkipToTrack)   *)
(* and the auto-continue effect of Home, with the streaming service as the *)
(* environment.                                                            *)
(***************************************************************************)
EXTENDS Integers, Sequences, FiniteSets, TLC

VARIABLES
    remote,              \* the streaming service: what it plays and its queue
    queueData,           \* query cache, key ['spotify','queue']
    queueFetch,          \* the queue query's fetch in flight
    playbackData,        \* query cache, key ['spotify','playback']
    lastPlayingTrackId,  \* useSpotifyPlayback's ref
    userQueuedTracks,    \* useQueueTrackingStore
    globalIsSkipping,    \* module-level flag of the hooks file
    isAuthenticated,     \* useSpotifyStore
    now,                 \* Date.now(), in minutes
    autoMode,            \* useAutoModeStore
    home,                \* Home: the auto-mode effect and handleAutoContinue
    enq,                 \* the useAddToQueue mutations
    skip,                \* the useSkipToTrack mutations
    trackContexts,       \* usePromptContextStore: the prompt of each track
    auth,                \* the Supabase session behind SupabaseAuth
    ev                   \* the last step taken: who did what

vars == << remote, queueData, queueFetch, playbackData, lastPlayingTrackId,
           userQueuedTracks, globalIsSkipping, isAuthenticated, now,
           autoMode, home, enq, skip, trackContexts, auth, ev >>

(***************************************************************************)
(* Bounds of the model.                                                    *)
(***************************************************************************)
MaxRemoteQueue == 2
\* The last minute of the clock, and the last reading of Date.now() in Home.
MaxTime == 62
MaxDateNow == 2
\* The re-issued requests of one call that the model follows.
MaxReissued == 3

\* The catalogue of the streaming service and the requests made of it.
TrackIds == {"a", "b"}
NoId == "none"
\* What the listener queues in the service's own application.
ManualIds == {"b"}
EnqOps == {"e1", "e2"}
SkipOps == {"s1", "s2"}
\* What an enqueue is asked for: lists of {artist, title}.
Batches ==
    { << [artist |-> "A", title |-> "X"] >>,
      << [artist |-> "A", title |-> "X"], [artist |-> "B", title |-> "Y"] >>,
      << [artist |-> "C", title |-> "Z"], [artist |-> "A", title |-> "X"] >> }

(***************************************************************************)
(* Values.                                                                 *)
(***************************************************************************)
\* No prompt summary: undefined, or the empty string.
NoSummary == ""

\* A track of the cached view: EnhancedSpotifyTrack, by id, _optimistic and
\* promptSummary.
Track(id) == [id |-> id, optimistic |-> FALSE, promptSummary |-> NoSummary]
NoTrack == Track(NoId)

\* SpotifyQueue as the service answers it, and as the query cache holds it.
\* has: "undefined" (no data yet), "null" (no active player) or "data".
QueueOf(cp, q) == [has |-> "data", currently_playing |-> cp, queue |-> q]
NullQueue == [has |-> "null", currently_playing |-> NoTrack, queue |-> << >>]
NoQueueData == [has |-> "undefined", currently_playing |-> NoTrack, queue |-> << >>]

Truthy(q) == q.has = "data"

MapSeq(s, F(_)) == [i \in 1..Len(s) |-> F(s[i])]
Ids(s) == [i \in 1..Len(s) |-> s[i].id]
Range(s) == {s[i] : i \in 1..Len(s)}

\* GET /me/player/queue against the service's state.
RemoteQueueResponse ==
    QueueOf(Track(remote.current), MapSeq(remote.queue, Track))

(***************************************************************************)
(* useQueueTrackingStore.                                                  *)
(***************************************************************************)
ONE_HOUR == 60

isUserQueued(tracked, trackId) == \E t \in tracked : t.id = trackId

\* Variant: a purge that keeps every record.
cleanupOldTracks_keepsAll(tracked, t) == tracked

cleanupOldTracks(tracked, t) == {r \in tracked : t - r.addedAt < ONE_HOUR}

removeQueuedTrack(tracked, trackId) == {r \in tracked : r.id # trackId}

addQueuedTracks(tracked, recs) == tracked \cup recs

(***************************************************************************)
(* usePromptContextStore: the provenance of each track, a set of entries   *)
(* keyed by track.  An entry is pending until its track plays, then active *)
(* and then ended.                                                         *)
(***************************************************************************)
Context(trackId, promptId, summary, isAutoGenerated) ==
    [trackId |-> trackId, promptId |-> promptId, summary |-> summary,
     isAutoGenerated |-> isAutoGenerated, state |-> "pending"]

\* promptSummary.startsWith('Auto:')
startsWithAuto(summary) == Len(summary) >= 5 /\ SubSeq(summary, 1, 5) = "Auto:"

\* Variant: an assignment that leaves the older entries in place.
assignContext_keepsOld(contexts, trackIds, promptId, summary, isAutoGenerated) ==
    contexts \cup
        {Context(id, promptId, summary, isAutoGenerated) : id \in trackIds}

\* A new entry for each track; the newer assignment overwrites.
assignContext(contexts, trackIds, promptId, summary, isAutoGenerated) ==
    {c \in contexts : c.trackId \notin trackIds} \cup
        {Context(id, promptId, summary, isAutoGenerated) : id \in trackIds}

\* getTrackContext(id)?.summary
getTrackSummary(contexts, id) ==
    IF \E c \in contexts : c.trackId = id
    THEN (CHOOSE c \in contexts : c.trackId = id).summary
    ELSE NoSummary

\* The entries of tracks neither in the filtered queue nor playing go.
garbageCollect(contexts, queueTrackIds, currentlyPlayingId) ==
    {c \in contexts :
        c.trackId \in queueTrackIds \/ c.trackId = currentlyPlayingId}

onTrackStarted(contexts, trackId) ==
    {IF c.trackId = trackId THEN [c EXCEPT !.state = "active"] ELSE c :
        c \in contexts}

onTrackEnded(contexts, trackId) ==
    {IF c.trackId = trackId THEN [c EXCEPT !.state = "ended"] ELSE c :
        c \in contexts}

(***************************************************************************)
(* filterUserQueue.                                                        *)
(***************************************************************************)
\* Variants: without the deduplication; with the membership test negated.
filterUserQueue_keepsPlaying(queue, tracked) ==
    IF ~Truthy(queue) THEN queue
    ELSE [queue EXCEPT !.queue =
             SelectSeq(queue.queue, LAMBDA t : isUserQueued(tracked, t.id))]

filterUserQueue_dropsRegistered(queue, tracked) ==
    IF ~Truthy(queue) THEN queue
    ELSE [queue EXCEPT !.queue =
             SelectSeq(queue.queue, LAMBDA t : ~isUserQueued(tracked, t.id))]

filterUserQueue(queue, tracked) ==
    IF ~Truthy(queue) THEN queue
    ELSE LET deduped ==
                 IF queue.currently_playing # NoTrack
                 THEN SelectSeq(queue.queue,
                                LAMBDA t : t.id # queue.currently_playing.id)
                 ELSE queue.queue
         IN  [queue EXCEPT !.queue =
                 SelectSeq(deduped, LAMBDA t : isUserQueued(tracked, t.id))]

(***************************************************************************)
(* The record of the last step when a poller took it (the remote call it   *)
(* issued, what became of the poll, the response it filtered) or when it   *)
(* ended a mutationFn.  Quiet after any other step.                        *)
(***************************************************************************)
Quiet ==
    [who |-> "none", op |-> "none", call |-> "none", act |-> "none",
     resp |-> NoQueueData]

EvPlayback(act) == [Quiet EXCEPT !.who = "playbackPoll", !.call = "getPlayback",
                                 !.act = act]

EvPoll(act, call, resp) ==
    [Quiet EXCEPT !.who = "queuePoll", !.call = call, !.act = act, !.resp = resp]

\* A mutation's onError or return: "rolledBack", "returned".
EvMutation(who, op, act) == [Quiet EXCEPT !.who = who, !.op = op, !.act = act]

(***************************************************************************)
(* The streaming service.  getQueue answers null when there is no active   *)
(* player, the queue otherwise; a call may also fail.                      *)
(***************************************************************************)
NoActivePlayer == remote.current = NoId /\ ~remote.playing

getQueueAnswers ==
    IF NoActivePlayer THEN {NullQueue, RemoteQueueResponse}
    ELSE {RemoteQueueResponse}

\* POST /me/player/next: the service moves to the head of its queue.
RemoteNext(r) ==
    IF r.queue = << >>
    THEN [current |-> NoId, queue |-> << >>, playing |-> FALSE]
    ELSE [current |-> Head(r.queue), queue |-> Tail(r.queue), playing |-> TRUE]

\* POST /me/player/queue?uri=...
RemoteEnqueue(r, id) == [r EXCEPT !.queue = Append(@, id)]

\* PUT /me/player/play
RemotePlay(r) ==
    IF r.current # NoId THEN [r EXCEPT !.playing = TRUE]
    ELSE IF r.queue # << >> THEN RemoteNext(r)
    ELSE r

\* For the record: the service moved on while a skip loop was running.
noteForeign(sk) == [sk EXCEPT !.foreign = @ \/ sk.pc = "skipping"]

\* The current track ends, or the listener skips on another device.
RemoteAdvance ==
    /\ remote.playing
    /\ remote' = RemoteNext(remote)
    /\ skip' = [s \in DOMAIN skip |-> noteForeign(skip[s])]
    /\ ev' = Quiet
    /\ UNCHANGED << queueData, queueFetch, playbackData, lastPlayingTrackId,
                    userQueuedTracks, globalIsSkipping, isAuthenticated, now,
                    autoMode, home, enq, trackContexts, auth >>

\* The listener queues a track in the service's own application.
RemoteUserQueues(id) ==
    /\ Len(remote.queue) < MaxRemoteQueue
    /\ remote' = RemoteEnqueue(remote, id)
    /\ ev' = Quiet
    /\ UNCHANGED << queueData, queueFetch, playbackData, lastPlayingTrackId,
                    userQueuedTracks, globalIsSkipping, isAuthenticated, now,
                    autoMode, home, enq, skip, trackContexts, auth >>

(***************************************************************************)
(* The session.  SupabaseAuth.getSpotifyToken reads the provider token of  *)
(* the Supabase session: valid, expired (the service answers 401) or none. *)
(* sessionExpired records that a poll has thrown 'Session expired. Please  *)
(* log in again.' since the last sign-in.                                  *)
(***************************************************************************)
SignedIn == [token |-> "valid", sessionExpired |-> FALSE]

SessionExpiredError == "Session expired. Please log in again."

(***************************************************************************)
(* useSpotifyQueue.  The queryFn runs in two steps: up to the await of     *)
(* getQueue, and from its answer on.  The answer is the service's state at *)
(* the time it arrives.                                                    *)
(***************************************************************************)
IdleFetch == [pc |-> "idle", attempt |-> 0, reissued |-> 0]

\* queryClient.cancelQueries: the answer of a fetch in flight is dropped.
\* (The dropped queryFn still purges the tracker when its answer arrives;
\* the tracker is read only after a later purge, which removes as much.)
cancelQueries(f) == IdleFetch

\* Variant: a queryFn that does not look at the flag.
queryFnStart_ignoresFlag(cached, attempt) ==
    [fetch |-> [IdleFetch EXCEPT !.pc = "fetching", !.attempt = attempt],
     event |-> EvPoll("request", "getQueue", NoQueueData)]

\* Variant: a queryFn for which the suspension never ends.
queryFnStart_suspended(cached, attempt) ==
    IF Truthy(cached)
    THEN [fetch |-> IdleFetch,
          event |-> EvPoll("servedCache", "none", cached)]
    ELSE [fetch |-> [IdleFetch EXCEPT !.pc = "fetching", !.attempt = attempt],
          event |-> EvPoll("request", "getQueue", NoQueueData)]

\* The queryFn up to its await: the cached value while skipping, else a
\* request to the service; without a token the request interceptor throws
\* before any call, on the first attempt and on the retry.  Gives the fetch
\* state and the step's record.
queryFnStart(cached, attempt) ==
    IF globalIsSkipping /\ Truthy(cached)
    THEN [fetch |-> IdleFetch,
          event |-> EvPoll("servedCache", "none", cached)]
    ELSE IF auth.token = "none"
    THEN [fetch |-> IdleFetch,
          event |-> EvPoll("failed", "none", NoQueueData)]
    ELSE [fetch |-> [IdleFetch EXCEPT !.pc = "fetching", !.attempt = attempt],
          event |-> EvPoll("request", "getQueue", NoQueueData)]

\* refetchInterval, mount or refetch: the query fetches when it is enabled
\* and no fetch is in flight.
QueueFetchStart ==
    /\ isAuthenticated
    /\ queueFetch.pc = "idle"
    /\ queueFetch' = queryFnStart(queueData, 0).fetch
    /\ ev' = queryFnStart(queueData, 0).event
    /\ UNCHANGED << remote, queueData, playbackData, lastPlayingTrackId,
                    userQueuedTracks, globalIsSkipping, isAuthenticated, now,
                    autoMode, home, enq, skip, trackContexts, auth >>

\* The queryFn's annotation of one track with its prompt summary.
withContext(track, contexts) ==
    [track EXCEPT !.promptSummary = getTrackSummary(contexts, track.id)]

\* The annotation of the filtered queue and of the playing track.
annotate(filteredQueue, contexts) ==
    IF ~Truthy(filteredQueue) THEN filteredQueue
    ELSE [filteredQueue EXCEPT
            !.queue = [i \in 1..Len(@) |-> withContext(@[i], contexts)],
            !.currently_playing =
                IF @ # NoTrack THEN withContext(@, contexts) ELSE @]

\* Variant: a queryFn that merges the cached placeholders and the cached
\* playing slot into what it publishes.
queryFnResult_keepsOverlay(queue) ==
    LET cleaned == cleanupOldTracks(userQueuedTracks, now)
        filteredQueue == filterUserQueue(queue, cleaned)
        merged == IF Truthy(filteredQueue) /\ Truthy(queueData)
                  THEN [filteredQueue EXCEPT
                          !.currently_playing = queueData.currently_playing,
                          !.queue = @ \o SelectSeq(queueData.queue,
                                                   LAMBDA t : t.optimistic)]
                  ELSE filteredQueue
    IN  [tracked |-> cleaned,
         data |-> annotate(merged, trackContexts),
         contexts |-> trackContexts]

\* The part of the queryFn after the await, for the answer `queue`: purge,
\* filter, annotate, garbage-collect.
queryFnResult(queue) ==
    LET cleaned == cleanupOldTracks(userQueuedTracks, now)
        filteredQueue == filterUserQueue(queue, cleaned)
    IN  [tracked |-> cleaned,
         data |-> annotate(filteredQueue, trackContexts),
         contexts |->
            IF Truthy(filteredQueue)
            THEN garbageCollect(trackContexts,
                                Range(Ids(filteredQueue.queue)),
                                filteredQueue.currently_playing.id)
            ELSE trackContexts]

\* For the record: the first and the later polls published after a
\* mutation's onSettled timer.
notePoll(e) ==
    [e EXCEPT !.timer = IF @ = "fired" THEN "polled"
                        ELSE IF @ = "polled" THEN "done" ELSE @]

\* getQueue resolved: purge, filter, publish.
QueueFetchComplete ==
    /\ queueFetch.pc = "fetching"
    /\ \E queue \in getQueueAnswers :
          /\ userQueuedTracks' = queryFnResult(queue).tracked
          /\ queueData' = queryFnResult(queue).data
          /\ trackContexts' = queryFnResult(queue).contexts
          /\ ev' = EvPoll("published", "none", queue)
    /\ queueFetch' = IdleFetch
    /\ enq' = [e \in DOMAIN enq |-> notePoll(enq[e])]
    /\ UNCHANGED << remote, playbackData, lastPlayingTrackId,
                    globalIsSkipping, isAuthenticated, now, autoMode, home,
                    skip, auth >>

\* Variant: a query that loses its data when its fetch fails.
QueueFetchFail_dropsData ==
    /\ queueFetch.pc = "fetching"
    /\ queueFetch' = IF queueFetch.attempt = 0
                     THEN queryFnStart(queueData, 1).fetch
                     ELSE IdleFetch
    /\ ev' = IF queueFetch.attempt = 0
             THEN queryFnStart(queueData, 1).event
             ELSE EvPoll("failed", "none", NoQueueData)
    /\ queueData' = IF queueFetch.attempt = 0 THEN queueData ELSE NoQueueData
    /\ UNCHANGED << remote, playbackData, lastPlayingTrackId,
                    userQueuedTracks, globalIsSkipping, isAuthenticated, now,
                    autoMode, home, enq, skip, trackContexts, auth >>

\* getQueue threw: the default options (retry: 1) run the queryFn once
\* more, then the query is in error and keeps its data.
QueueFetchFail ==
    /\ queueFetch.pc = "fetching"
    /\ queueFetch' = IF queueFetch.attempt = 0
                     THEN queryFnStart(queueData, 1).fetch
                     ELSE IdleFetch
    /\ ev' = IF queueFetch.attempt = 0
             THEN queryFnStart(queueData, 1).event
             ELSE EvPoll("failed", "none", NoQueueData)
    /\ UNCHANGED << remote, queueData, playbackData, lastPlayingTrackId,
                    userQueuedTracks, globalIsSkipping, isAuthenticated, now,
                    autoMode, home, enq, skip, trackContexts, auth >>

\* queryClient.invalidateQueries(['spotify','queue']): a fetch in flight is
\* cancelled and the query refetches if it is enabled.
invalidateQueue(cached) ==
    IF isAuthenticated
    THEN queryFnStart(cached, 0)
    ELSE [fetch |-> cancelQueries(queueFetch),
          event |-> Quiet]

(***************************************************************************)
(* useSpotifyPlayback: the playback query and the effect on its data.  One *)
(* step is one poll: the request, its answer and the effect.               *)
(***************************************************************************)
PlaybackOf(playing, item) == [has |-> "data", is_playing |-> playing, item |-> item]
NullPlayback == [has |-> "null", is_playing |-> FALSE, item |-> NoId]
NoPlaybackData == [has |-> "undefined", is_playing |-> FALSE, item |-> NoId]

\* GET /me/player against the service's state.
getCurrentPlaybackAnswer ==
    IF NoActivePlayer THEN NullPlayback
    ELSE PlaybackOf(remote.playing, remote.current)

PlaybackPoll ==
    /\ isAuthenticated
    /\ LET data == getCurrentPlaybackAnswer
           item == IF data.has = "data" THEN data.item ELSE NoId
       IN  /\ playbackData' = data
           /\ IF item # NoId
              THEN IF item # lastPlayingTrackId
                   THEN /\ lastPlayingTrackId' = item
                        /\ trackContexts' =
                              onTrackStarted(
                                  IF lastPlayingTrackId # NoId
                                  THEN onTrackEnded(trackContexts,
                                                    lastPlayingTrackId)
                                  ELSE trackContexts, item)
                        /\ userQueuedTracks' = removeQueuedTrack(userQueuedTracks, item)
                   ELSE UNCHANGED << lastPlayingTrackId, userQueuedTracks,
                                     trackContexts >>
              ELSE /\ lastPlayingTrackId' = NoId
                   /\ trackContexts' =
                         IF lastPlayingTrackId # NoId
                         THEN onTrackEnded(trackContexts, lastPlayingTrackId)
                         ELSE trackContexts
                   /\ UNCHANGED userQueuedTracks
    /\ ev' = EvPlayback("published")
    /\ UNCHANGED << remote, queueData, queueFetch, globalIsSkipping,
                    isAuthenticated, now, autoMode, home, enq, skip, auth >>

PlaybackPollFail ==
    /\ isAuthenticated
    /\ ev' = EvPlayback("failed")
    /\ UNCHANGED << remote, queueData, queueFetch, playbackData,
                    lastPlayingTrackId, userQueuedTracks, globalIsSkipping,
                    isAuthenticated, now, autoMode, home, enq, skip,
                    trackContexts, auth >>

(***************************************************************************)
(* SpotifyService.searchTrackByArtistAndTitle against a small catalogue.   *)
(***************************************************************************)
Req(artist, title) == [artist |-> artist, title |-> title]

\* GET /search: the catalogue's answer to each query string.
searchTrack(query) ==
    CASE query = "artist:\"A\" track:\"X\"" -> << "a" >>
      [] query = "artist:A track:X"         -> << "a" >>
      [] query = "A X"                      -> << "a", "b" >>
      [] query = "B Y"                      -> << "a", "b" >>
      [] OTHER                              -> << >>

\* a.name.toLowerCase().includes(artist.toLowerCase()) or the converse, for
\* the artists of each catalogue track.
ArtistMatches(id, artist) == << id, artist >> \in { << "a", "A" >>, << "b", "B" >> }

searchTrackByArtistAndTitle(artist, title) ==
    LET exact == searchTrack("artist:\"" \o artist \o "\" track:\"" \o title \o "\"")
        fuzzy == searchTrack("artist:" \o artist \o " track:" \o title)
        bare  == searchTrack(artist \o " " \o title)
        hits  == SelectSeq(bare, LAMBDA id : ArtistMatches(id, artist))
    IN  IF Len(exact) > 0 THEN exact[1]
        ELSE IF Len(fuzzy) > 0 THEN fuzzy[1]
        ELSE IF Len(bare) > 0
             THEN (IF Len(hits) > 0 THEN hits[1] ELSE bare[1])
             ELSE NoId

(***************************************************************************)
(* SpotifyService.addMultipleToQueue, step 1: the searches.  `failed` are  *)
(* the positions whose search request threw.                               *)
(***************************************************************************)
Result(success, track, error) ==
    [success |-> success, track |-> track, error |-> error]

NetworkError == "Network Error"

\* Variant: a missing track reported without its artist and title.
searchResult_bareError(req, threw) ==
    IF threw THEN Result(FALSE, NoId, NetworkError)
    ELSE LET track == searchTrackByArtistAndTitle(req.artist, req.title)
         IN  Result(track # NoId, track,
                    IF track # NoId THEN "" ELSE "Track not found")

searchResult(req, threw) ==
    IF threw THEN Result(FALSE, NoId, NetworkError)
    ELSE LET track == searchTrackByArtistAndTitle(req.artist, req.title)
         IN  Result(track # NoId, track,
                    IF track # NoId THEN ""
                    ELSE "Track not found: " \o req.artist \o " - " \o req.title)

searchResults(tracks, failed) ==
    [i \in 1..Len(tracks) |-> searchResult(tracks[i], i \in failed)]

\* Step 2, one position: no call for a failed search, else the outcome of
\* addToQueue.
AddFailed == "Failed to add track to queue"

queueResult(result, ok) ==
    IF result.success /\ result.track # NoId
    THEN (IF ok THEN Result(TRUE, result.track, "")
          ELSE Result(FALSE, result.track, AddFailed))
    ELSE Result(FALSE, NoId, result.error)

\* The positions of step 2 that call addToQueue.
needsAdd(results) ==
    {i \in 1..Len(results) : results[i].success /\ results[i].track # NoId}

(***************************************************************************)
(* useAddToQueue.  Each mutation e keeps the context of its onMutate, the  *)
(* state of the two promises of its mutationFn (the playback query and     *)
(* addTracksToQueue) and its onSettled timer.                              *)
(***************************************************************************)
IdleEnq ==
    [mut |-> "idle", tracks |-> << >>, promptSummary |-> NoSummary,
     previousQueue |-> NoQueueData,
     playback |-> "none", pipe |-> "none", threw |-> {}, results |-> << >>,
     adds |-> {}, addedAt |-> -1, timer |-> "none"]

\* context.optimisticTracks: one placeholder for each requested track.
OptTrack(e, i, promptSummary) ==
    [id |-> "optimistic-" \o e \o "-" \o ToString(i), optimistic |-> TRUE,
     promptSummary |-> promptSummary]

optimisticTracks(e, tracks, promptSummary) ==
    [i \in 1..Len(tracks) |-> OptTrack(e, i, promptSummary)]

\* onMutate's optimistic update of the cached queue.
withOptimistic(previousQueue, opt) ==
    IF Truthy(previousQueue)
    THEN [previousQueue EXCEPT !.queue = @ \o opt]
    ELSE previousQueue

\* Variant: onError that restores nothing.
rollback_keepsCurrent(current, previousQueue) == current

\* Variant: onError that restores the queue list and not the playing slot.
rollback_keepsPlaying(current, previousQueue) ==
    IF Truthy(previousQueue)
    THEN [previousQueue EXCEPT !.currently_playing = current.currently_playing]
    ELSE current

\* onError: roll back to the snapshot, when there is one.
rollback(current, previousQueue) ==
    IF Truthy(previousQueue) THEN previousQueue ELSE current

\* Variant: a strip that drops every placeholder, whosever it is.
stripOptimistic_all(currentQueue, opt) ==
    IF Truthy(currentQueue)
    THEN [currentQueue EXCEPT !.queue = SelectSeq(@, LAMBDA t : ~t.optimistic)]
    ELSE currentQueue

\* Variant: a strip that drops nothing.
stripOptimistic_none(currentQueue, opt) == currentQueue

\* onSettled's timer: drop this mutation's placeholders from the cache.
stripOptimistic(currentQueue, opt) ==
    IF Truthy(currentQueue)
    THEN [currentQueue EXCEPT !.queue =
             SelectSeq(@, LAMBDA t : t.id \notin Range(Ids(opt))
                                     \/ ~t.optimistic)]
    ELSE currentQueue

\* mutate(): onMutate, then the mutationFn up to its await.  Unauthenticated,
\* addTracksToQueue throws at once and onError rolls the update back.
EnqStart(e, tracks, promptSummary) ==
    /\ enq[e].mut = "idle"
    /\ queueFetch' = cancelQueries(queueFetch)
    /\ IF isAuthenticated
       THEN /\ queueData' = withOptimistic(queueData,
                              optimisticTracks(e, tracks, promptSummary))
            /\ enq' = [enq EXCEPT ![e] =
                 [IdleEnq EXCEPT !.mut = "pending", !.tracks = tracks,
                                 !.promptSummary = promptSummary,
                                 !.previousQueue = queueData,
                                 !.playback = "pending", !.pipe = "searching"]]
            /\ ev' = Quiet
       ELSE /\ queueData' = rollback(withOptimistic(queueData,
                              optimisticTracks(e, tracks, promptSummary)),
                                     queueData)
            /\ enq' = [enq EXCEPT ![e] =
                 [IdleEnq EXCEPT !.mut = "error", !.tracks = tracks,
                                 !.promptSummary = promptSummary,
                                 !.previousQueue = queueData,
                                 !.pipe = "threw", !.timer = "pending"]]
            /\ ev' = EvMutation("enqueue", e, "rolledBack")
    /\ UNCHANGED << remote, playbackData, lastPlayingTrackId,
                    userQueuedTracks, globalIsSkipping, isAuthenticated, now,
                    autoMode, home, skip, trackContexts, auth >>

\* addMultipleToQueue, step 1: all searches have answered.
EnqSearched(e, failed) ==
    /\ enq[e].pipe = "searching"
    /\ LET results == searchResults(enq[e].tracks, failed)
       IN  enq' = [enq EXCEPT ![e].threw = failed,
                              ![e].results = results,
                              ![e].adds = needsAdd(results),
                              ![e].pipe = IF needsAdd(results) = {}
                                          THEN "done" ELSE "adding"]
    /\ ev' = Quiet
    /\ UNCHANGED << remote, queueData, queueFetch, playbackData,
                    lastPlayingTrackId, userQueuedTracks, globalIsSkipping,
                    isAuthenticated, now, autoMode, home, skip,
                    trackContexts, auth >>

\* addMultipleToQueue, step 2: one addToQueue call answers.
EnqAdd(e, i, ok) ==
    /\ enq[e].pipe = "adding"
    /\ i \in enq[e].adds
    /\ ok => Len(remote.queue) < MaxRemoteQueue
    /\ remote' = IF ok THEN RemoteEnqueue(remote, enq[e].results[i].track)
                 ELSE remote
    /\ enq' = [enq EXCEPT ![e].results[i] = queueResult(@, ok),
                          ![e].adds = @ \ {i},
                          ![e].pipe = IF enq[e].adds = {i} THEN "done" ELSE @]
    /\ ev' = Quiet
    /\ UNCHANGED << queueData, queueFetch, playbackData, lastPlayingTrackId,
                    userQueuedTracks, globalIsSkipping, isAuthenticated, now,
                    autoMode, home, skip, trackContexts, auth >>

\* The mutationFn's getCurrentPlayback answers.
EnqPlayback(e) ==
    /\ enq[e].mut = "pending"
    /\ enq[e].playback = "pending"
    /\ enq' = [enq EXCEPT ![e].playback =
                  IF getCurrentPlaybackAnswer.has = "data"
                     /\ getCurrentPlaybackAnswer.is_playing
                  THEN "playing" ELSE "notPlaying"]
    /\ ev' = Quiet
    /\ UNCHANGED << remote, queueData, queueFetch, playbackData,
                    lastPlayingTrackId, userQueuedTracks, globalIsSkipping,
                    isAuthenticated, now, autoMode, home, skip,
                    trackContexts, auth >>

\* getCurrentPlayback throws: Promise.all rejects, the mutationFn throws,
\* onError rolls back and onSettled sets its timer.  addTracksToQueue goes
\* on by itself.
EnqPlaybackFail(e) ==
    /\ enq[e].mut = "pending"
    /\ enq[e].playback = "pending"
    /\ queueData' = rollback(queueData, enq[e].previousQueue)
    /\ enq' = [enq EXCEPT ![e].playback = "failed", ![e].mut = "error",
                          ![e].timer = "pending"]
    /\ ev' = EvMutation("enqueue", e, "rolledBack")
    /\ UNCHANGED << remote, queueFetch, playbackData, lastPlayingTrackId,
                    userQueuedTracks, globalIsSkipping, isAuthenticated, now,
                    autoMode, home, skip, trackContexts, auth >>

\* Variant: the identifiers of every track found, added or not.
successfulTrackIds_found(results) ==
    {results[i].track :
        i \in {j \in 1..Len(results) : results[j].track # NoId}}

\* The identifiers the mutationFn assigns its prompt to: those of the
\* successful results.
successfulTrackIds(results) ==
    {results[i].track :
        i \in {j \in 1..Len(results) :
                 results[j].success /\ results[j].track # NoId}}

\* `prompt-${Date.now()}-${random}`: one identifier for each mutation.
PromptId(e) == "prompt-" \o e

\* The tracks the mutationFn registers: the successful results.
successfulTracks(results, t) ==
    { [id |-> results[i].track, addedAt |-> t] :
        i \in {j \in 1..Len(results) :
                 results[j].success /\ results[j].track # NoId} }

\* Promise.all resolved: start playback if nothing plays (not awaited),
\* assign the prompt to the successful tracks when there is a summary and
\* such a track, register them, return the results; onSettled sets its
\* timer.
EnqFinish(e, playOk) ==
    /\ enq[e].mut = "pending"
    /\ enq[e].playback \in {"playing", "notPlaying"}
    /\ enq[e].pipe = "done"
    /\ remote' = IF enq[e].playback = "notPlaying" /\ playOk
                 THEN RemotePlay(remote) ELSE remote
    /\ trackContexts' =
          IF enq[e].promptSummary # NoSummary
             /\ successfulTrackIds(enq[e].results) # {}
          THEN assignContext(trackContexts,
                             successfulTrackIds(enq[e].results), PromptId(e),
                             enq[e].promptSummary,
                             startsWithAuto(enq[e].promptSummary))
          ELSE trackContexts
    /\ userQueuedTracks' =
          addQueuedTracks(userQueuedTracks, successfulTracks(enq[e].results, now))
    /\ enq' = [enq EXCEPT ![e].mut = "success", ![e].addedAt = now,
                          ![e].timer = "pending"]
    /\ ev' = EvMutation("enqueue", e, "returned")
    /\ UNCHANGED << queueData, queueFetch, playbackData, lastPlayingTrackId,
                    globalIsSkipping, isAuthenticated, now, autoMode, home,
                    skip, auth >>

\* onSettled's timer, 500 ms on: strip the placeholders, then invalidate.
EnqTimer(e) ==
    /\ enq[e].timer = "pending"
    /\ queueData' = stripOptimistic(queueData,
                         optimisticTracks(e, enq[e].tracks,
                                          enq[e].promptSummary))
    /\ queueFetch' = invalidateQueue(queueData').fetch
    /\ enq' = [enq EXCEPT ![e].timer = "fired"]
    /\ ev' = invalidateQueue(queueData').event
    /\ UNCHANGED << remote, playbackData, lastPlayingTrackId,
                    userQueuedTracks, globalIsSkipping, isAuthenticated, now,
                    autoMode, home, skip, trackContexts, auth >>

(***************************************************************************)
(* useSkipToTrack.  Each mutation s keeps the context of its onMutate, the *)
(* locals of its mutationFn (fullQueue, targetIndex, the loop counter) and *)
(* its onSettled timer; `foreign` records that something else moved the    *)
(* service's position while the loop ran.                                  *)
(***************************************************************************)
IdleSkip ==
    [pc |-> "idle", target |-> NoId, previousQueue |-> NoQueueData,
     fullQueue |-> << >>, targetIndex |-> -1, calls |-> 0, foreign |-> FALSE,
     timer |-> "none", error |-> ""]

\* Variant: a search that always answers the first position.
findIndex_first(queue, id) == 0

\* fullQueue.queue.findIndex(track => track.id === targetTrackId), 0-based.
findIndex(queue, id) ==
    IF \E i \in 1..Len(queue) : queue[i].id = id
    THEN (CHOOSE i \in 1..Len(queue) :
             /\ queue[i].id = id
             /\ \A j \in 1..(i - 1) : queue[j].id # id) - 1
    ELSE -1

\* Variant: an onMutate without the optimistic update.
skipOptimistic_none(previousQueue, targetTrackId) == previousQueue

\* onMutate's optimistic update: the target becomes the playing track and
\* leaves the cached queue.
skipOptimistic(previousQueue, targetTrackId) ==
    IF Truthy(previousQueue) /\ findIndex(previousQueue.queue, targetTrackId) # -1
    THEN QueueOf(previousQueue.queue[findIndex(previousQueue.queue, targetTrackId) + 1],
                 SelectSeq(previousQueue.queue, LAMBDA t : t.id # targetTrackId))
    ELSE previousQueue

\* mutate(targetTrackId): onMutate, then the mutationFn up to its await of
\* getQueue.  The target is a track of the queue the page shows.
SkipStart(s, targetTrackId) ==
    /\ skip[s].pc = "idle"
    /\ Truthy(queueData)
    /\ targetTrackId \in Range(Ids(queueData.queue))
    /\ queueFetch' = cancelQueries(queueFetch)
    /\ queueData' = skipOptimistic(queueData, targetTrackId)
    /\ globalIsSkipping' = TRUE
    /\ skip' = [skip EXCEPT ![s] =
          [IdleSkip EXCEPT !.pc = "fetchingQueue", !.target = targetTrackId,
                           !.previousQueue = queueData]]
    /\ ev' = Quiet
    /\ UNCHANGED << remote, playbackData, lastPlayingTrackId,
                    userQueuedTracks, isAuthenticated, now, autoMode, home,
                    enq, trackContexts, auth >>

\* The mutationFn throws after `calls` skip calls: finally resets the flag,
\* onError rolls back, onSettled sets its timer.
skipThrows(s, error, calls) ==
    /\ globalIsSkipping' = FALSE
    /\ queueData' = rollback(queueData, skip[s].previousQueue)
    /\ skip' = [skip EXCEPT ![s].pc = "error", ![s].error = error,
                            ![s].calls = calls, ![s].timer = "pending"]
    /\ ev' = EvMutation("skip", s, "rolledBack")

\* getQueue answered: find the target in the full queue.
SkipGotQueue(s) ==
    /\ skip[s].pc = "fetchingQueue"
    /\ \E fullQueue \in getQueueAnswers :
          IF ~Truthy(fullQueue)
          THEN skipThrows(s, "No queue available", 0)
          ELSE IF findIndex(fullQueue.queue, skip[s].target) = -1
          THEN skipThrows(s, "Track not found in queue", 0)
          ELSE /\ skip' = [skip EXCEPT ![s].pc = "skipping",
                              ![s].fullQueue = Ids(fullQueue.queue),
                              ![s].targetIndex =
                                  findIndex(fullQueue.queue, skip[s].target)]
               /\ ev' = Quiet
               /\ UNCHANGED << globalIsSkipping, queueData >>
    /\ UNCHANGED << remote, queueFetch, playbackData, lastPlayingTrackId,
                    userQueuedTracks, isAuthenticated, now, autoMode, home,
                    enq, trackContexts, auth >>

SkipGetQueueFail(s) ==
    /\ skip[s].pc = "fetchingQueue"
    /\ skipThrows(s, NetworkError, 0)
    /\ UNCHANGED << remote, queueFetch, playbackData, lastPlayingTrackId,
                    userQueuedTracks, isAuthenticated, now, autoMode, home,
                    enq, trackContexts, auth >>

\* Variant: a loop that stops one call early, i < targetIndex.
lastSkipCall_early(calls, targetIndex) == calls >= targetIndex - 1

\* The loop's test, for (let i = 0; i <= targetIndex; i++): the call just
\* made was the last.
lastSkipCall(calls, targetIndex) == calls = targetIndex

\* One turn of the loop: skipToNext is called and answers.  After the last
\* call the mutationFn returns and finally resets the flag.
SkipCall(s) ==
    /\ skip[s].pc = "skipping"
    /\ remote' = RemoteNext(remote)
    /\ IF lastSkipCall(skip[s].calls, skip[s].targetIndex)
       THEN /\ skip' = [skip EXCEPT ![s].calls = @ + 1, ![s].pc = "success",
                                    ![s].timer = "pending"]
            /\ globalIsSkipping' = FALSE
            /\ ev' = EvMutation("skip", s, "returned")
       ELSE /\ skip' = [skip EXCEPT ![s].calls = @ + 1]
            /\ ev' = Quiet
            /\ UNCHANGED globalIsSkipping
    /\ UNCHANGED << queueData, queueFetch, playbackData, lastPlayingTrackId,
                    userQueuedTracks, isAuthenticated, now, autoMode, home,
                    enq, trackContexts, auth >>

\* skipToNext throws.
SkipCallFail(s) ==
    /\ skip[s].pc = "skipping"
    /\ skipThrows(s, "Failed to skip track", skip[s].calls + 1)
    /\ UNCHANGED << remote, queueFetch, playbackData, lastPlayingTrackId,
                    userQueuedTracks, isAuthenticated, now, autoMode, home,
                    enq, trackContexts, auth >>

\* onSettled's timer, 500 ms on: invalidate the queue and playback queries.
\* The refetch of the playback query is a PlaybackPoll or PlaybackPollFail.
SkipTimer(s) ==
    /\ skip[s].timer = "pending"
    /\ queueFetch' = invalidateQueue(queueData).fetch
    /\ skip' = [skip EXCEPT ![s].timer = "fired"]
    /\ ev' = invalidateQueue(queueData).event
    /\ UNCHANGED << remote, queueData, playbackData, lastPlayingTrackId,
                    userQueuedTracks, globalIsSkipping, isAuthenticated, now,
                    autoMode, home, enq, trackContexts, auth >>

(***************************************************************************)
(* useSpotifyStore.setSession, called by AuthProvider on the events of the *)
(* Supabase client: sign-in and sign-out.                                  *)
(***************************************************************************)
SetSession(session) ==
    /\ isAuthenticated # session
    /\ isAuthenticated' = session
    /\ ev' = Quiet
    /\ UNCHANGED << remote, queueData, queueFetch, playbackData,
                    lastPlayingTrackId, userQueuedTracks, globalIsSkipping,
                    now, autoMode, home, enq, skip, trackContexts >>

\* SIGNED_IN: the listener has authenticated again.
SignedInEvent == SetSession(TRUE) /\ auth' = SignedIn

\* SIGNED_OUT: the listener logged out, or the client dropped the session.
SignedOutEvent == SetSession(FALSE) /\ auth' = [auth EXCEPT !.token = "none"]

\* The provider token runs out: the service answers 401 from now on.
TokenExpires ==
    /\ auth.token = "valid"
    /\ auth' = [auth EXCEPT !.token = "expired"]
    /\ ev' = Quiet
    /\ UNCHANGED << remote, queueData, queueFetch, playbackData,
                    lastPlayingTrackId, userQueuedTracks, globalIsSkipping,
                    isAuthenticated, now, autoMode, home, enq, skip,
                    trackContexts >>

(***************************************************************************)
(* The response interceptor of SpotifyService on a 401.  refreshSession    *)
(* gives a session with a fresh token ("refreshed"), with a token the     *)
(* service still rejects ("stale") or with none ("noToken"), or throws,    *)
(* the session kept ("failed") or dropped by the client with a SIGNED_OUT  *)
(* event ("signedOut").  The retried request goes through the same         *)
(* interceptor; queueFetch.reissued counts the requests re-issued for one  *)
(* call, followed up to MaxReissued.                                       *)
(***************************************************************************)
RefreshOutcomes == {"refreshed", "stale", "noToken", "failed", "signedOut"}

UnauthorizedError == "Request failed with status code 401"

\* What the interceptor does: retry the request, or throw.
interceptor(refresh) ==
    [retried |-> refresh \in {"refreshed", "stale"},
     error |-> IF refresh \in {"refreshed", "stale"} THEN ""
               ELSE IF refresh = "noToken" THEN UnauthorizedError
               ELSE SessionExpiredError]

\* The session after the refresh.
afterRefresh(a, refresh) ==
    [token |-> IF refresh = "refreshed" THEN "valid"
               ELSE IF refresh \in {"failed", "stale"} THEN a.token
               ELSE "none",
     sessionExpired |->
        a.sessionExpired \/ interceptor(refresh).error = SessionExpiredError]

\* getQueue is answered 401.  A thrown error fails the attempt: the query
\* runs the queryFn once more (retry: 1), which without a token throws
\* before any call.
QueueFetchUnauthorized(refresh) ==
    /\ queueFetch.pc = "fetching"
    /\ auth.token = "expired"
    /\ auth' = afterRefresh(auth, refresh)
    /\ isAuthenticated' = (isAuthenticated /\ refresh # "signedOut")
    /\ interceptor(refresh).retried => queueFetch.reissued < MaxReissued
    /\ IF interceptor(refresh).retried
       THEN /\ queueFetch' = [queueFetch EXCEPT !.reissued = @ + 1]
            /\ ev' = EvPoll("request", "getQueue", NoQueueData)
       ELSE IF queueFetch.attempt = 0 /\ auth'.token # "none"
       THEN /\ queueFetch' = [IdleFetch EXCEPT !.pc = "fetching", !.attempt = 1]
            /\ ev' = EvPoll("request", "getQueue", NoQueueData)
       ELSE /\ queueFetch' = IdleFetch
            /\ ev' = EvPoll("failed", "none", NoQueueData)
    /\ UNCHANGED << remote, queueData, playbackData, lastPlayingTrackId,
                    userQueuedTracks, globalIsSkipping, now, autoMode, home,
                    enq, skip, trackContexts >>

\* getCurrentPlayback is answered 401: its request is retried with the
\* fresh token, or the poll fails.
PlaybackPollUnauthorized(refresh) ==
    /\ isAuthenticated
    /\ auth.token = "expired"
    /\ auth' = afterRefresh(auth, refresh)
    /\ isAuthenticated' = (refresh # "signedOut")
    /\ ev' = IF interceptor(refresh).retried THEN EvPlayback("request")
             ELSE EvPlayback("failed")
    /\ UNCHANGED << remote, queueData, queueFetch, playbackData,
                    lastPlayingTrackId, userQueuedTracks, globalIsSkipping,
                    now, autoMode, home, enq, skip, trackContexts >>

\* A playback poll without a token: the request interceptor throws before
\* any call.
PlaybackPollNoToken ==
    /\ isAuthenticated
    /\ auth.token = "none"
    /\ ev' = [EvPlayback("failed") EXCEPT !.call = "none"]
    /\ UNCHANGED << remote, queueData, queueFetch, playbackData,
                    lastPlayingTrackId, userQueuedTracks, globalIsSkipping,
                    isAuthenticated, now, autoMode, home, enq, skip,
                    trackContexts, auth >>

(***************************************************************************)
(* useAutoModeStore and the auto-mode effect of Home.                      *)
(***************************************************************************)
\* The trigger key `${currentTrack.id}-${Date.now()}`, and null.
TriggerKey(id, dateNow) == [id |-> id, at |-> dateNow]
NoKey == TriggerKey(NoId, -1)

\* The dependency list of the effect, as the last render saw it.
Deps ==
    [currently_playing |-> queueData.currently_playing,
     queue |-> queueData.queue,
     isAutoMode |-> autoMode.isAutoMode,
     is_playing |-> playbackData.is_playing,
     lastAutoPromptSummary |-> autoMode.lastAutoPromptSummary,
     handleAutoContinue |-> home.handleAutoContinue]

IdleAutoMode == [isAutoMode |-> FALSE, lastAutoPromptSummary |-> NoKey]

\* Home before its first effect run: no dependencies seen, no timer.
\* armedFor keeps the playing tracks for which the effect has set its marker.
IdleHome ==
    [deps |-> [currently_playing |-> NoTrack, queue |-> << >>,
               isAutoMode |-> FALSE, is_playing |-> FALSE,
               lastAutoPromptSummary |-> NoKey, handleAutoContinue |-> -1],
     handleAutoContinue |-> 0, timeoutId |-> "none", dateNow |-> 0,
     isLoading |-> FALSE, requests |-> << >>, armedFor |-> {}]

toggleAutoMode(store) == [store EXCEPT !.isAutoMode = ~@]

ToggleAutoMode ==
    /\ autoMode' = toggleAutoMode(autoMode)
    /\ ev' = Quiet
    /\ UNCHANGED << remote, queueData, queueFetch, playbackData,
                    lastPlayingTrackId, userQueuedTracks, globalIsSkipping,
                    isAuthenticated, now, home, enq, skip, trackContexts,
                    auth >>

\* The body of the effect up to its test of the marker: auto-mode is on,
\* something plays, the playing track is not auto-queued, the queue is empty.
queueDepleted ==
    /\ autoMode.isAutoMode
    /\ playbackData.is_playing
    /\ queueData.currently_playing.id # NoId
    /\ ~startsWithAuto(queueData.currently_playing.promptSummary)
    /\ Len(queueData.queue) = 0

\* The test of the marker against the key of this run.
isNewTrigger(lastAutoPromptSummary, triggerKey) ==
    lastAutoPromptSummary # triggerKey

\* The record of a run of the auto-mode effect: "cleared" when the cleanup
\* of the run before found its timer pending.
EvEffect(timeoutId) ==
    IF timeoutId = "pending"
    THEN [Quiet EXCEPT !.who = "effect", !.act = "cleared"]
    ELSE Quiet

\* Variant: an effect without the cleanup, whose timer stays when a later
\* run schedules nothing.
EffectRun_noCleanup(dateNow) ==
    /\ Deps # home.deps
    /\ dateNow >= home.dateNow
    /\ LET triggerKey == TriggerKey(queueData.currently_playing.id, dateNow)
           arms == /\ queueDepleted
                   /\ isNewTrigger(autoMode.lastAutoPromptSummary, triggerKey)
       IN  /\ autoMode' = IF arms
                          THEN [autoMode EXCEPT !.lastAutoPromptSummary = triggerKey]
                          ELSE autoMode
           /\ home' = [home EXCEPT !.deps = Deps, !.dateNow = dateNow,
                                   !.timeoutId = IF arms THEN "pending" ELSE @,
                                   !.armedFor =
                                       IF arms
                                       THEN @ \cup {queueData.currently_playing.id}
                                       ELSE @]
    /\ ev' = EvEffect(home.timeoutId)
    /\ UNCHANGED << remote, queueData, queueFetch, playbackData,
                    lastPlayingTrackId, userQueuedTracks, globalIsSkipping,
                    isAuthenticated, now, enq, skip, trackContexts, auth >>

\* A render committed with a changed dependency: the cleanup of the last run
\* clears its timer, then the effect runs with Date.now() = dateNow.
EffectRun(dateNow) ==
    /\ Deps # home.deps
    /\ dateNow >= home.dateNow
    /\ LET triggerKey == TriggerKey(queueData.currently_playing.id, dateNow)
           arms == /\ queueDepleted
                   /\ isNewTrigger(autoMode.lastAutoPromptSummary, triggerKey)
       IN  /\ autoMode' = IF arms
                          THEN [autoMode EXCEPT !.lastAutoPromptSummary = triggerKey]
                          ELSE autoMode
           /\ home' = [home EXCEPT !.deps = Deps, !.dateNow = dateNow,
                                   !.timeoutId = IF arms THEN "pending" ELSE "none",
                                   !.armedFor =
                                       IF arms
                                       THEN @ \cup {queueData.currently_playing.id}
                                       ELSE @]
    /\ ev' = EvEffect(home.timeoutId)
    /\ UNCHANGED << remote, queueData, queueFetch, playbackData,
                    lastPlayingTrackId, userQueuedTracks, globalIsSkipping,
                    isAuthenticated, now, enq, skip, trackContexts, auth >>

\* Home renders with a new handleAutoContinue: its useCallback depends on
\* isLoading and on the object useMutation returns.
HomeRerenders ==
    /\ Deps = home.deps
    /\ home' = [home EXCEPT !.handleAutoContinue = 1 - @]
    /\ ev' = Quiet
    /\ UNCHANGED << remote, queueData, queueFetch, playbackData,
                    lastPlayingTrackId, userQueuedTracks, globalIsSkipping,
                    isAuthenticated, now, autoMode, enq, skip, trackContexts,
                    auth >>

\* The timer of the effect, 2 s on, when no render has cleared it:
\* handleAutoContinue asks for recommendations unless a request is loading.
\* requests lists the playing track of each request made.
AutoTimerFires ==
    /\ home.timeoutId = "pending"
    /\ Deps = home.deps
    /\ home' = [home EXCEPT !.timeoutId = "none",
                            !.isLoading = TRUE,
                            !.requests =
                                IF home.isLoading THEN @
                                ELSE Append(@, queueData.currently_playing.id)]
    /\ ev' = Quiet
    /\ UNCHANGED << remote, queueData, queueFetch, playbackData,
                    lastPlayingTrackId, userQueuedTracks, globalIsSkipping,
                    isAuthenticated, now, autoMode, enq, skip, trackContexts,
                    auth >>

(***************************************************************************)
(* Time passes.                                                            *)
(***************************************************************************)
TickSteps == {30, 31}

Tick(d) ==
    /\ now + d <= MaxTime
    /\ now' = now + d
    /\ ev' = Quiet
    /\ UNCHANGED << remote, queueData, queueFetch, playbackData,
                    lastPlayingTrackId, userQueuedTracks, globalIsSkipping,
                    isAuthenticated, autoMode, home, enq, skip,
                    trackContexts, auth >>

(***************************************************************************)
(* The specification of the queue engine.                                  *)
(***************************************************************************)
\* The service at the start: nothing playing or a track playing, and
\* perhaps a track the listener queued there; the session valid or expired.
Init ==
    /\ remote \in { [current |-> c, queue |-> q, playing |-> c # NoId] :
                      c \in {NoId, "a"},
                      q \in { << >> } \cup { << id >> : id \in ManualIds } }
    /\ queueData = NoQueueData
    /\ queueFetch = IdleFetch
    /\ playbackData = NoPlaybackData
    /\ lastPlayingTrackId = NoId
    /\ userQueuedTracks = {}
    /\ globalIsSkipping = FALSE
    /\ isAuthenticated \in BOOLEAN
    /\ now = 0
    /\ autoMode = IdleAutoMode
    /\ home = IdleHome
    /\ enq = [e \in EnqOps |-> IdleEnq]
    /\ skip = [s \in SkipOps |-> IdleSkip]
    /\ trackContexts = {}
    /\ auth = SignedIn
    /\ ev = Quiet

Environment ==
    \/ RemoteAdvance

Pollers ==
    \/ QueueFetchStart
    \/ QueueFetchComplete
    \/ QueueFetchFail
    \/ PlaybackPoll
    \/ PlaybackPollFail

Enqueue(e, batches, summaries) ==
    \/ \E tracks \in batches, promptSummary \in summaries :
          EnqStart(e, tracks, promptSummary)
    \/ \E failed \in SUBSET (1..Len(enq[e].tracks)) : EnqSearched(e, failed)
    \/ \E i \in 1..Len(enq[e].tracks), ok \in BOOLEAN : EnqAdd(e, i, ok)
    \/ EnqPlayback(e)
    \/ EnqPlaybackFail(e)
    \/ \E playOk \in BOOLEAN : EnqFinish(e, playOk)
    \/ EnqTimer(e)

\* One enqueue, the pollers and the service.
Next ==
    \/ Environment
    \/ Pollers
    \/ Enqueue("e1", Batches, {NoSummary})

Spec == Init /\ [][Next]_vars

(***************************************************************************)
(* The specification of skip-to-track: the page shows a polled queue of    *)
(* registered tracks and the listener clicks one of them.                  *)
(***************************************************************************)
\* The queues the service may hold.
RemoteQueues ==
    UNION { [1..n -> TrackIds] : n \in 1..MaxRemoteQueue }

InitSkip ==
    /\ remote \in { [current |-> "a", queue |-> q, playing |-> TRUE] :
                      q \in RemoteQueues }
    /\ userQueuedTracks \in
          { { [id |-> id, addedAt |-> 0] : id \in ids } : ids \in SUBSET TrackIds }
    /\ queueData = filterUserQueue(RemoteQueueResponse, userQueuedTracks)
    /\ queueFetch = IdleFetch
    /\ playbackData = NoPlaybackData
    /\ lastPlayingTrackId = NoId
    /\ globalIsSkipping = FALSE
    /\ isAuthenticated = TRUE
    /\ now = 0
    /\ autoMode = IdleAutoMode
    /\ home = IdleHome
    /\ enq = [e \in EnqOps |-> IdleEnq]
    /\ skip = [s \in SkipOps |-> IdleSkip]
    /\ trackContexts = {}
    /\ auth = SignedIn
    /\ ev = Quiet

Skip(s) ==
    \/ \E targetTrackId \in TrackIds : SkipStart(s, targetTrackId)
    \/ SkipGotQueue(s)
    \/ SkipGetQueueFail(s)
    \/ SkipCall(s)
    \/ SkipCallFail(s)
    \/ SkipTimer(s)

NextSkip ==
    \/ Environment
    \/ Pollers
    \/ Skip("s1")

SpecSkip == InitSkip /\ [][NextSkip]_vars

\* The same with its scheduling: a remote call answers or fails, a timer
\* fires, and the enabled queries poll at their refetchInterval.
FairSkip(s) ==
    /\ WF_vars(SkipGotQueue(s) \/ SkipGetQueueFail(s))
    /\ WF_vars(SkipCall(s) \/ SkipCallFail(s))
    /\ WF_vars(SkipTimer(s))

FairPollers ==
    /\ WF_vars(QueueFetchStart)
    /\ WF_vars(QueueFetchComplete \/ QueueFetchFail)
    /\ WF_vars(PlaybackPoll \/ PlaybackPollFail)

SpecSkipLive == SpecSkip /\ FairSkip("s1") /\ FairPollers

(***************************************************************************)
(* The specification of the tracker over time: an enqueue, the pollers and *)
(* the clock.                                                              *)
(***************************************************************************)
ClockBatches ==
    { << [artist |-> "A", title |-> "X"], [artist |-> "B", title |-> "Y"] >> }

NextClock ==
    \/ \E d \in TickSteps : Tick(d)
    \/ Environment
    \/ QueueFetchStart
    \/ QueueFetchComplete
    \/ QueueFetchFail
    \/ PlaybackPoll
    \/ \E tracks \in ClockBatches : EnqStart("e1", tracks, NoSummary)
    \/ EnqSearched("e1", {})
    \/ \E i \in 1..Len(enq["e1"].tracks) : EnqAdd("e1", i, TRUE)
    \/ EnqPlayback("e1")
    \/ EnqFinish("e1", TRUE)
    \/ EnqTimer("e1")

SpecClock == Init /\ [][NextClock]_vars

(***************************************************************************)
(* The specification of auto-continue: the pollers, the listener's toggle  *)
(* and the effect of Home.                                                 *)
(***************************************************************************)
\* The provenance at the start: none, or track "b" queued by an
\* auto-continue.
AutoContexts ==
    { {}, {Context("b", "prompt-0", "Auto: chill evening", TRUE)} }

InitAuto ==
    /\ remote \in { [current |-> c, queue |-> q, playing |-> TRUE] :
                      c \in TrackIds, q \in { << >>, << "b" >> } }
    /\ userQueuedTracks \in
          { { [id |-> id, addedAt |-> 0] : id \in ids } : ids \in SUBSET TrackIds }
    /\ queueData = NoQueueData
    /\ queueFetch = IdleFetch
    /\ playbackData = NoPlaybackData
    /\ lastPlayingTrackId = NoId
    /\ globalIsSkipping = FALSE
    /\ isAuthenticated = TRUE
    /\ now = 0
    /\ autoMode = IdleAutoMode
    /\ home = IdleHome
    /\ enq = [e \in EnqOps |-> IdleEnq]
    /\ skip = [s \in SkipOps |-> IdleSkip]
    /\ trackContexts \in AutoContexts
    /\ auth = SignedIn
    /\ ev = Quiet

NextAuto ==
    \/ Environment
    \/ Pollers
    \/ ToggleAutoMode
    \/ \E dateNow \in 0..MaxDateNow : EffectRun(dateNow)
    \/ HomeRerenders

SpecAuto == InitAuto /\ [][NextAuto]_vars

(***************************************************************************)
(* The specification of the session: the pollers while the provider token  *)
(* runs out, is refreshed or not, and the listener signs out and in.       *)
(***************************************************************************)
InitAuth == Init /\ isAuthenticated

NextAuth ==
    \/ Environment
    \/ TokenExpires
    \/ SignedInEvent
    \/ SignedOutEvent
    \/ QueueFetchStart
    \/ auth.token # "expired" /\ QueueFetchComplete
    \/ QueueFetchFail
    \/ \E refresh \in RefreshOutcomes : QueueFetchUnauthorized(refresh)
    \/ auth.token = "valid" /\ PlaybackPoll
    \/ auth.token # "none" /\ PlaybackPollFail
    \/ \E refresh \in RefreshOutcomes : PlaybackPollUnauthorized(refresh)
    \/ PlaybackPollNoToken

SpecAuth == InitAuth /\ [][NextAuth]_vars

(***************************************************************************)
(* The specification of provenance: two enqueues with prompt summaries,    *)
(* one after the other, the pollers and the service.  The settle timers of *)
(* the enqueues, which touch the cached view only, are not run.            *)
(***************************************************************************)
FirstBatches ==
    { << [artist |-> "A", title |-> "X"], [artist |-> "B", title |-> "Y"] >>,
      << [artist |-> "C", title |-> "Z"], [artist |-> "A", title |-> "X"] >> }

SecondBatch == << [artist |-> "A", title |-> "X"] >>

InitProvenance == Init /\ isAuthenticated /\ remote.queue = << >>

\* The first enqueue is a listener's prompt; its remote adds may fail.
FirstEnqueue(e) ==
    \/ \E tracks \in FirstBatches : EnqStart(e, tracks, "chill vibes")
    \/ EnqSearched(e, {})
    \/ \E i \in 1..Len(enq[e].tracks), ok \in BOOLEAN : EnqAdd(e, i, ok)
    \/ EnqPlayback(e)
    \/ EnqFinish(e, TRUE)

\* The second is an auto-continue's; it starts once the first has returned.
SecondEnqueue(e) ==
    \/ enq["e1"].mut = "success" /\ EnqStart(e, SecondBatch, "Auto: chill vibes")
    \/ EnqSearched(e, {})
    \/ EnqAdd(e, 1, TRUE)
    \/ EnqPlayback(e)
    \/ EnqFinish(e, TRUE)

NextProvenance ==
    \/ Environment
    \/ QueueFetchStart
    \/ QueueFetchComplete
    \/ PlaybackPoll
    \/ FirstEnqueue("e1")
    \/ SecondEnqueue("e2")

SpecProvenance == InitProvenance /\ [][NextProvenance]_vars

(***************************************************************************)
(* The specification of the auto-continue loop: auto-mode is on, a track   *)
(* of the listener's plays as the last of the queue, and an enqueue whose  *)
(* summary starts with 'Auto:' (the one handleAutoContinue issues) runs    *)
(* beside the pollers and the effect of Home.                              *)
(***************************************************************************)
AutoBatch == << [artist |-> "A", title |-> "X"] >>

InitLoop ==
    /\ remote = [current |-> "b", queue |-> << >>, playing |-> TRUE]
    /\ queueData = NoQueueData
    /\ queueFetch = IdleFetch
    /\ playbackData = NoPlaybackData
    /\ lastPlayingTrackId = NoId
    /\ userQueuedTracks = {}
    /\ globalIsSkipping = FALSE
    /\ isAuthenticated = TRUE
    /\ now = 0
    /\ autoMode = toggleAutoMode(IdleAutoMode)
    /\ home = IdleHome
    /\ enq = [e \in EnqOps |-> IdleEnq]
    /\ skip = [s \in SkipOps |-> IdleSkip]
    /\ trackContexts = {}
    /\ auth = SignedIn
    /\ ev = Quiet

\* The enqueue of handleAutoContinue, every remote call of which succeeds.
AutoEnqueue(e) ==
    \/ EnqStart(e, AutoBatch, "Auto: chill vibes")
    \/ EnqSearched(e, {})
    \/ EnqAdd(e, 1, TRUE)
    \/ EnqPlayback(e)
    \/ EnqFinish(e, TRUE)
    \/ EnqTimer(e)

NextLoop ==
    \/ Environment
    \/ QueueFetchStart
    \/ QueueFetchComplete
    \/ PlaybackPoll
    \/ AutoEnqueue("e1")
    \/ \E dateNow \in 0..MaxDateNow : EffectRun(dateNow)

SpecLoop == InitLoop /\ [][NextLoop]_vars

(***************************************************************************)
(* Properties of the queue engine, checked under Spec.                     *)
(***************************************************************************)
\* The subsequence of q whose identifiers are in members and are not playing.
RECURSIVE KeepUserQueued(_, _, _)
KeepUserQueued(q, members, playing) ==
    IF q = << >> THEN << >>
    ELSE IF Head(q).id \in members /\ Head(q).id # playing
         THEN << Head(q) >> \o KeepUserQueued(Tail(q), members, playing)
         ELSE KeepUserQueued(Tail(q), members, playing)

Members == {r.id : r \in userQueuedTracks}

PollPublished == ev.who = "queuePoll" /\ ev.act = "published"

\* C1: the queue list a queue poll publishes is exactly the subsequence of
\* the service's queue whose identifiers are in the membership tracker and
\* differ from the currently-playing identifier, in the original order; the
\* currently-playing slot is the service's.
C1_FilterInvariant ==
    (PollPublished /\ Truthy(ev.resp)) =>
        /\ queueData.currently_playing = ev.resp.currently_playing
        /\ queueData.queue =
              KeepUserQueued(ev.resp.queue, Members, ev.resp.currently_playing.id)

\* A poll published a queue from which it dropped a track and kept another.
C1_Witness ==
    /\ PollPublished
    /\ Len(queueData.queue) >= 1
    /\ Len(ev.resp.queue) > Len(queueData.queue)

\* What an enqueue matched and how many confirmed entries a queue holds of it.
Matched(e) == {enq[e].results[i].track : i \in 1..Len(enq[e].results)}

AllSucceeded(e) ==
    /\ enq[e].mut = "success"
    /\ \A i \in 1..Len(enq[e].results) : enq[e].results[i].success

ConfirmedEntries(queue, ids) ==
    Cardinality({i \in 1..Len(queue) : queue[i].id \in ids /\ ~queue[i].optimistic})

Placeholders(e) ==
    Range(optimisticTracks(e, enq[e].tracks, enq[e].promptSummary))

NoPlaceholders(e) == Placeholders(e) \cap Range(queueData.queue) = {}

\* The first queue poll after the strip of e has just published.
NextPollDone(e) == enq[e].timer = "polled" /\ PollPublished

\* The polled queue still holds the entries of e, none of them playing, all
\* of them still registered.
EntriesStillQueued(e) ==
    /\ Truthy(ev.resp)
    /\ ConfirmedEntries(ev.resp.queue, Matched(e)) = Len(enq[e].tracks)
    /\ ev.resp.currently_playing.id \notin Matched(e)
    /\ Matched(e) \subseteq Members

\* C2, as stated: after an enqueue of N tracks that all succeeded, once the
\* settle delay has elapsed and the next queue poll has completed, the cached
\* view holds none of its placeholders and exactly N confirmed entries of its
\* matched tracks.
C2_Original ==
    \A e \in EnqOps :
        (AllSucceeded(e) /\ NextPollDone(e)) =>
            /\ NoPlaceholders(e)
            /\ ConfirmedEntries(queueData.queue, Matched(e)) = Len(enq[e].tracks)

\* C2, amended: after an enqueue of N tracks that all succeeded, once the
\* settle delay has elapsed and the next queue poll has completed, the cached
\* view holds none of its placeholders; it holds exactly N confirmed entries
\* of its matched tracks when the polled queue still holds those N entries,
\* none of them is the playing track and all are still registered.
C2_Reconciled ==
    \A e \in EnqOps :
        (AllSucceeded(e) /\ NextPollDone(e)) =>
            /\ NoPlaceholders(e)
            /\ EntriesStillQueued(e) =>
                  ConfirmedEntries(queueData.queue, Matched(e)) = Len(enq[e].tracks)

\* Two tracks were enqueued and the next poll shows both, confirmed.
C2_Witness ==
    \E e \in EnqOps :
        /\ AllSucceeded(e) /\ NextPollDone(e) /\ EntriesStillQueued(e)
        /\ Truthy(enq[e].previousQueue)
        /\ Len(enq[e].tracks) = 2
        /\ ConfirmedEntries(queueData.queue, Matched(e)) = 2

\* onError of e has just run, and none of its remote calls had resolved.
ThrewEarly(e) ==
    /\ ev = EvMutation("enqueue", e, "rolledBack")
    /\ enq[e].pipe \in {"searching", "threw"}

C4_Original ==
    [][ (ev'.who = "queuePoll" /\ ev'.act = "published") =>
           \A e \in EnqOps :
               Placeholders(e) \cap Range(queueData.queue)
                  \subseteq Range(queueData'.queue) ]_vars

NotFound(req) == "Track not found: " \o req.artist \o " - " \o req.title

\* The track of the catalogue each request names.
ExpectedMatch(req) ==
    CASE req = Req("A", "X") -> "a"
      [] req = Req("B", "Y") -> "b"
      [] OTHER -> NoId

\* C10: addMultipleToQueue gives one result for each requested track, in
\* request order: for a track with no match, a failure with the error
\* 'Track not found: <artist> - <title>'; for any other track the outcome of
\* its own search and remote enqueue, whatever became of the rest.
C10_PerTrackResults ==
    \A e \in EnqOps :
        enq[e].pipe = "done" =>
            /\ Len(enq[e].results) = Len(enq[e].tracks)
            /\ \A i \in 1..Len(enq[e].tracks) :
                  LET r == enq[e].results[i]
                      req == enq[e].tracks[i]
                  IN  IF i \in enq[e].threw
                      THEN r = Result(FALSE, NoId, NetworkError)
                      ELSE IF ExpectedMatch(req) = NoId
                      THEN r = Result(FALSE, NoId, NotFound(req))
                      ELSE r \in { Result(TRUE, ExpectedMatch(req), ""),
                                   Result(FALSE, ExpectedMatch(req), AddFailed) }

\* The first track of a batch was not found; the second was found and is in
\* the service's queue.
C10_Witness ==
    \E e \in EnqOps :
        /\ enq[e].pipe = "done"
        /\ enq[e].results =
              << Result(FALSE, NoId, "Track not found: C - Z"),
                 Result(TRUE, "a", "") >>
        /\ "a" \in Range(remote.queue)

\* C12, as stated: an enqueue that has begun its remote calls completes by
\* returning its result list: whatever remote call fails (the playback-state
\* query, a search, a remote enqueue, start-playback), the operation does not
\* throw.
C12_Original ==
    \A e \in EnqOps : enq[e].pipe # "threw" => enq[e].mut # "error"

(***************************************************************************)
(* Properties of skip-to-track, checked under SpecSkip.                    *)
(***************************************************************************)
PollerCalled ==
    /\ ev.who \in {"queuePoll", "playbackPoll"}
    /\ ev.call \in {"getQueue", "getPlayback"}

\* C5, as stated: while the poll-suspend flag is set the pollers issue
\* neither a get-queue nor a get-playback-state request.
C5_Original == globalIsSkipping => ~PollerCalled

\* C5, amended: while the poll-suspend flag is set and the cache holds a
\* queue, a queue poll issues no get-queue request: it returns the cached
\* value and leaves the cache as it is.
C5_QueuePollSuspended ==
    [][ (globalIsSkipping /\ Truthy(queueData) /\ ev'.who = "queuePoll") =>
           /\ ev'.call = "none"
           /\ ev'.act = "servedCache"
           /\ ev'.resp = queueData
           /\ queueData' = queueData
           /\ queueFetch'.pc = "idle" ]_vars

\* A queue poll ran while a skip was in progress and served the cache.
C5_Witness ==
    /\ globalIsSkipping
    /\ ev.who = "queuePoll"
    /\ ev.act = "servedCache"
    /\ \E s \in SkipOps : skip[s].pc \in {"fetchingQueue", "skipping"}

\* The zero-based offset of the first entry of queue with identifier id.
OffsetOf(queue, id) ==
    CHOOSE j \in 0..(Len(queue) - 1) :
        /\ queue[j + 1] = id
        /\ \A k \in 1..j : queue[k] # id

\* C6: with the target at zero-based offset J of the service's queue, a
\* skipTo whose calls all succeed has issued exactly J + 1 skip-forward
\* calls when it returns, and never more than J while its loop runs.
C6_SkipCalls ==
    \A s \in SkipOps :
        /\ skip[s].pc = "success" =>
              skip[s].calls = OffsetOf(skip[s].fullQueue, skip[s].target) + 1
        /\ skip[s].pc = "skipping" =>
              skip[s].calls <= OffsetOf(skip[s].fullQueue, skip[s].target)

\* A skip to the second entry of the service's queue returned after two calls.
C6_Witness ==
    \E s \in SkipOps :
        /\ skip[s].pc = "success"
        /\ OffsetOf(skip[s].fullQueue, skip[s].target) = 1
        /\ skip[s].calls = 2

SkipReturned(s) == ev = EvMutation("skip", s, "returned")

PlaysTarget(s) ==
    /\ remote.current = skip[s].target
    /\ queueData.currently_playing.id = skip[s].target

\* C7, as stated: when skipTo(target) returns, the service plays the target
\* and the currently-playing slot of the cached view holds the target.
C7_Original ==
    \A s \in SkipOps : SkipReturned(s) => PlaysTarget(s)

\* Nothing but the calls of s moved the service since s fetched its queue,
\* and no other mutation is under way.
Undisturbed(s) ==
    /\ ~skip[s].foreign
    /\ \A e \in EnqOps : enq[e].mut = "idle"
    /\ \A t \in SkipOps \ {s} : skip[t].pc = "idle"

\* C7, amended: when skipTo(target) returns, nothing but its own calls has
\* moved the service since it fetched the queue and no other mutation ran
\* alongside, the service plays the target and the currently-playing slot of
\* the cached view holds the target.
C7_PlaysTarget ==
    \A s \in SkipOps : (SkipReturned(s) /\ Undisturbed(s)) => PlaysTarget(s)

\* An undisturbed skip over one track returned.
C7_Witness ==
    \E s \in SkipOps :
        /\ SkipReturned(s) /\ Undisturbed(s)
        /\ skip[s].calls = 2
        /\ PlaysTarget(s)

\* The pollers' fresh fetches.
FreshQueueFetch == ev.who = "queuePoll" /\ ev.call = "getQueue"

FreshPlaybackFetch == ev.who = "playbackPoll" /\ ev.call = "getPlayback"

SkipRunning(s) == skip[s].pc \in {"fetchingQueue", "skipping"}

SkipSettled(s) == skip[s].pc \in {"success", "error"}

\* C13: every skipTo that has started, whether it succeeds, fails on an
\* absent target or fails on a skip-forward call, eventually settles with the
\* poll-suspend flag cleared; from the moment it settles a queue poll
\* eventually calls the service's queue endpoint and a playback poll its
\* playback endpoint.
C13_SkipSettlesAndResumes ==
    \A s \in SkipOps :
        /\ SkipRunning(s) ~> (SkipSettled(s) /\ ~globalIsSkipping)
        /\ skip[s].timer = "pending" ~> FreshQueueFetch
        /\ skip[s].timer = "pending" ~> FreshPlaybackFetch

\* A skip failed, its settle timer has fired and the refetch calls the
\* service with the flag cleared.
C13_Witness ==
    \E s \in SkipOps :
        /\ skip[s].pc = "error"
        /\ skip[s].timer = "fired"
        /\ ~globalIsSkipping
        /\ FreshQueueFetch

\* The getQueue of s answers a queue in this step.
GotFullQueue(s) ==
    /\ skip[s].pc = "fetchingQueue"
    /\ skip'[s].pc # "fetchingQueue"
    /\ skip'[s].error \notin {NetworkError, "No queue available"}

\* C14: when the queue fetched at the start of skipTo(target) does not hold
\* the target, the operation fails with 'Track not found in queue' and
\* issues no skip-forward call, then or later.
C14_TargetAbsent ==
    [][ \A s \in SkipOps :
          /\ (GotFullQueue(s) /\ skip[s].target \notin Range(remote.queue)) =>
                /\ skip'[s].pc = "error"
                /\ skip'[s].error = "Track not found in queue"
                /\ skip'[s].calls = 0
          /\ skip[s].error = "Track not found in queue" =>
                /\ skip'[s].pc = "error"
                /\ skip'[s].calls = 0
      ]_vars

\* The target had left the service's queue when the skip fetched it.
C14_Witness ==
    \E s \in SkipOps :
        /\ ev = EvMutation("skip", s, "rolledBack")
        /\ skip[s].error = "Track not found in queue"
        /\ skip[s].calls = 0
        /\ skip[s].target \notin Range(remote.queue)

(***************************************************************************)
(* Properties of the auto-continue loop, checked under SpecLoop.           *)
(***************************************************************************)
\* The tracks that enqueue e has put in the service's queue.
RemoteAdded(e) ==
    {enq[e].results[i].track :
        i \in {j \in 1..Len(enq[e].results) :
                 /\ enq[e].results[j].success
                 /\ enq[e].results[j].track # NoId
                 /\ j \notin enq[e].adds}}

\* The tracks queued by an enqueue whose summary starts with 'Auto:'.
AutoQueued ==
    UNION {RemoteAdded(e) : e \in {o \in EnqOps :
                                      startsWithAuto(enq[o].promptSummary)}}

QueueFetchFails ==
    /\ queueFetch.pc = "fetching"
    /\ \/ queueFetch.attempt = 0 /\ queueFetch'.attempt = 1
       \/ ev' = EvPoll("failed", "none", NoQueueData)

PlaybackFetchFails == ev' = EvPlayback("failed")

\* C17: when a queue fetch or a playback fetch fails, the cached queue view
\* and the cached playback state that consumers read are after the poll what
\* they were before it, and so are the tracker, the provenance entries and
\* the last playing track.
C17_FailedPollKeepsSnapshot ==
    [][ (QueueFetchFails \/ PlaybackFetchFails) =>
            UNCHANGED << queueData, playbackData, userQueuedTracks,
                         trackContexts, lastPlayingTrackId >>
      ]_vars

\* A queue fetch has failed twice while the cache held a view with a playing
\* track and a queued track, and a playback state.
C17_Witness ==
    /\ ev = EvPoll("failed", "none", NoQueueData)
    /\ Truthy(queueData)
    /\ queueData.currently_playing # NoTrack
    /\ queueData.queue # << >>
    /\ playbackData.has = "data"

\* The error handling of s runs in this step.
SkipFails(s) == skip[s].pc # "error" /\ skip'[s].pc = "error"

\* C15: when a skipTo fails, on an absent target or on a skip-forward call,
\* the cached view after its error handling is the snapshot taken when it
\* began, currently-playing slot included, and it issues no further
\* skip-forward call.
C15_SkipRollback ==
    [][ \A s \in SkipOps :
          /\ SkipFails(s) => queueData' = skip'[s].previousQueue
          /\ skip[s].pc = "error" =>
                /\ skip'[s].pc = "error"
                /\ skip'[s].calls = skip[s].calls
      ]_vars

\* A skip failed on its second skip-forward call; the cached view again
\* shows the target in the queue and the track that played before.
C15_Witness ==
    \E s \in SkipOps :
        /\ ev = EvMutation("skip", s, "rolledBack")
        /\ skip[s].error = "Failed to skip track"
        /\ skip[s].calls = 2
        /\ queueData = skip[s].previousQueue
        /\ queueData.currently_playing.id # skip[s].target
        /\ skip[s].target \in Range(Ids(queueData.queue))

(***************************************************************************)
(* Properties of the tracker over time, checked under SpecClock.           *)
(***************************************************************************)
\* The tracks an enqueue registered, at time enq[e].addedAt.
Registered(e) ==
    IF enq[e].mut = "success"
    THEN {r.id : r \in successfulTracks(enq[e].results, enq[e].addedAt)}
    ELSE {}

\* C9: a queue poll made 61 minutes or more after an enqueue registered a
\* track finds the track absent from the tracker, whatever polls and failed
\* polls came in between: isUserQueued answers false and the published
\* queue does not hold the track.
C9_Expired ==
    \A e \in EnqOps :
        (PollPublished /\ now >= enq[e].addedAt + ONE_HOUR + 1) =>
            \A id \in Registered(e) :
                /\ ~isUserQueued(userQueuedTracks, id)
                /\ id \notin Range(Ids(queueData.queue))

\* A poll, 61 minutes after the registration of a track the service still
\* holds in its queue.
C9_Witness ==
    \E e \in EnqOps :
        /\ PollPublished
        /\ now = enq[e].addedAt + ONE_HOUR + 1
        /\ Registered(e) \cap Range(Ids(ev.resp.queue)) # {}

(***************************************************************************)
(* Properties of auto-continue, checked under SpecAuto.                    *)
(***************************************************************************)
\* The effect has run on the state the polls delivered last.
EffectSettled == Deps = home.deps

\* The requests made or scheduled for the playing track.
RequestsFor(id) ==
    Cardinality({i \in 1..Len(home.requests) : home.requests[i] = id})
    + (IF home.timeoutId = "pending" THEN 1 ELSE 0)

\* The timer of the effect never outlives the render its own marker update
\* causes: AutoTimerFires is never enabled.
TimerAlwaysCleared == home.timeoutId = "pending" => ~EffectSettled

\* C8, as stated: while auto-mode is on, a track that is not auto-queued
\* plays and the filtered queue is empty, the trigger makes exactly one
\* request for the playing track: once the effect has run on that state, one
\* request is made or scheduled.
C8_Original ==
    (queueDepleted /\ EffectSettled) =>
        RequestsFor(queueData.currently_playing.id) = 1

\* C19, as stated: once the trigger has fired for one depletion event and
\* the playing track has changed to another track that is not auto-queued,
\* with the filtered queue empty again and auto-mode on, the trigger fires
\* once for the new event: once the effect has run on that state, one
\* request for the new playing track is made or scheduled.
C19_Original ==
    ( /\ queueDepleted
      /\ EffectSettled
      /\ \E other \in home.armedFor : other # queueData.currently_playing.id
    ) => RequestsFor(queueData.currently_playing.id) = 1

(***************************************************************************)
(* Properties of provenance, checked under SpecProvenance.                 *)
(***************************************************************************)
\* The identifiers of the results of e that report success.
SuccessIds(e) ==
    {enq[e].results[i].track :
        i \in {j \in 1..Len(enq[e].results) : enq[e].results[j].success}}

\* The tracks whose provenance entry carries the prompt of e.
CreatedBy(contexts, e) ==
    {c.trackId : c \in {d \in contexts : d.promptId = PromptId(e)}}

\* The mutationFn of e returns in this step.
Returns(e) == enq[e].mut = "pending" /\ enq'[e].mut = "success"

\* C11: when an enqueue with a prompt summary returns, the provenance
\* entries that carry its prompt are keyed by exactly the identifiers of the
\* results that report success, none for a track not found or not added,
\* and the tracker gains exactly those identifiers.
C11_ProvenanceOfSuccess ==
    [][ \A e \in EnqOps :
          (Returns(e) /\ enq[e].promptSummary # NoSummary) =>
              /\ CreatedBy(trackContexts', e) = SuccessIds(e)
              /\ {r.id : r \in userQueuedTracks'} = Members \cup SuccessIds(e)
      ]_vars

\* An enqueue with a summary returned with one track added and one not: the
\* one entry of its prompt is the added track's, which is registered.
C11_Witness ==
    \E e \in EnqOps :
        /\ ev = EvMutation("enqueue", e, "returned")
        /\ enq[e].promptSummary # NoSummary
        /\ Len(enq[e].results) = 2
        /\ Cardinality(SuccessIds(e)) = 1
        /\ CreatedBy(trackContexts, e) = SuccessIds(e)
        /\ SuccessIds(e) \subseteq Members

\* The entries of a track, and the prompts they carry.
EntriesOf(contexts, id) == {c \in contexts : c.trackId = id}

PromptsOf(contexts, id) == {c.promptId : c \in EntriesOf(contexts, id)}

\* Enqueue e assigns its prompt to id in this step.
Assigns(e, id) ==
    Returns(e) /\ enq[e].promptSummary # NoSummary /\ id \in SuccessIds(e)

\* C20: a track has at most one provenance entry, and it is the one of the
\* most recent assignment: the step in which an enqueue assigns its prompt
\* to a track leaves the track with the entry of that prompt and summary,
\* and no other step gives a track an entry of another prompt.
C20_OneEntryMostRecent ==
    /\ [](\A id \in TrackIds : Cardinality(EntriesOf(trackContexts, id)) <= 1)
    /\ [][ \A id \in TrackIds :
             /\ \A e \in EnqOps :
                   Assigns(e, id) =>
                       EntriesOf(trackContexts', id) =
                           {Context(id, PromptId(e), enq[e].promptSummary,
                                    startsWithAuto(enq[e].promptSummary))}
             /\ (\A e \in EnqOps : ~Assigns(e, id)) =>
                   PromptsOf(trackContexts', id) \subseteq
                       PromptsOf(trackContexts, id)
         ]_vars

\* Two enqueues have matched track a and the second has just returned,
\* the entry of the first for track b still being there: a has one entry,
\* with the prompt and the summary of the second.
C20_Witness ==
    /\ ev = EvMutation("enqueue", "e2", "returned")
    /\ enq["e1"].mut = "success"
    /\ "a" \in SuccessIds("e1") \cap SuccessIds("e2")
    /\ "b" \in CreatedBy(trackContexts, "e1")
    /\ EntriesOf(trackContexts, "a") =
          {Context("a", PromptId("e2"), "Auto: chill vibes", TRUE)}

(***************************************************************************)
(* Properties of the session, checked under SpecAuth.                      *)
(***************************************************************************)
\* C16, as stated: once a call of a poller has failed with the session
\* expired and not refreshed, no poller calls the service until the
\* listener has signed in again.
C16_Original ==
    [][ (auth.sessionExpired /\ auth'.sessionExpired) => ev'.call = "none" ]_vars

(***************************************************************************)
(* The schedule of the polls.  refetchInterval gives the delay to the next *)
(* fetch in milliseconds, from the data of the query; 0 stands for false   *)
(* (no refetch is scheduled).                                              *)
(***************************************************************************)
\* useSpotifyQueue.refetchInterval
queueRefetchInterval(isSkipping, data) ==
    IF isSkipping THEN 0
    ELSE IF ~Truthy(data) THEN 10000
    ELSE IF data.currently_playing # NoTrack THEN 3000 ELSE 10000

\* useSpotifyPlayback.refetchInterval
playbackRefetchInterval(data) ==
    IF data.has # "data" THEN 5000
    ELSE IF data.is_playing THEN 1000 ELSE 5000

\* The listener pauses, or resumes, on one of the service's devices.
RemotePause ==
    /\ remote.current # NoId
    /\ remote' = [remote EXCEPT !.playing = ~@]
    /\ ev' = Quiet
    /\ UNCHANGED << queueData, queueFetch, playbackData, lastPlayingTrackId,
                    userQueuedTracks, globalIsSkipping, isAuthenticated, now,
                    autoMode, home, enq, skip, trackContexts, auth >>

\* The pollers against a service that plays, pauses and moves on.
NextInterval ==
    \/ Environment
    \/ RemotePause
    \/ Pollers

SpecInterval == InitSkip /\ [][NextInterval]_vars

\* C21, as stated: the next queue poll comes 3 time-units (of 1000 ms)
\* after a poll that found a track playing and 10 after one that found
\* playback paused or stopped, or while no snapshot is cached; the next
\* playback poll comes 1 time-unit after a poll that found a track playing
\* and 5 otherwise.
C21_Original ==
    /\ ~Truthy(queueData) =>
          queueRefetchInterval(globalIsSkipping, queueData) = 10000
    /\ ev = EvPoll("published", "none", ev.resp) =>
          queueRefetchInterval(globalIsSkipping, queueData) =
              IF remote.playing THEN 3000 ELSE 10000
    /\ ev = EvPlayback("published") =>
          playbackRefetchInterval(playbackData) =
              IF remote.playing THEN 1000 ELSE 5000
    /\ playbackData.has # "data" => playbackRefetchInterval(playbackData) = 5000

(***************************************************************************)
(* The specification of overlapping mutations: two enqueues of one track   *)
(* each and a skip run beside the queue poll, on a page that shows a       *)
(* queue.  An enqueue succeeds, or throws on its playback query.           *)
(***************************************************************************)
OverlapBatch == << [artist |-> "B", title |-> "Y"] >>

\* Track a plays, track b is queued and registered, and the page shows it.
InitOverlap ==
    /\ InitSkip
    /\ remote.queue = << "b" >>
    /\ userQueuedTracks = { [id |-> "b", addedAt |-> 0] }

OverlapEnqueue(e) ==
    \/ EnqStart(e, OverlapBatch, NoSummary)
    \/ EnqSearched(e, {})
    \/ EnqAdd(e, 1, TRUE)
    \/ EnqPlayback(e)
    \/ EnqPlaybackFail(e)
    \/ EnqFinish(e, TRUE)
    \/ EnqTimer(e)

NextOverlap ==
    \/ QueueFetchStart
    \/ QueueFetchComplete
    \/ OverlapEnqueue("e1")
    \/ OverlapEnqueue("e2")
    \/ Skip("s1")

SpecOverlap == InitOverlap /\ [][NextOverlap]_vars

(***************************************************************************)
(* Properties of overlapping mutations, checked under SpecOverlap.         *)
(***************************************************************************)
\* The cached view holds no placeholder, and its playing slot is the track
\* the service plays.
NoOverlay ==
    /\ \A i \in 1..Len(queueData.queue) : ~queueData.queue[i].optimistic
    /\ queueData.currently_playing.id = remote.current

\* C22, as stated: after every completion of a queue poll the cached view
\* holds no entry flagged optimistic and its playing slot is the one the
\* service reports.
C22_Original ==
    (ev.who = "queuePoll" /\ ev.act \in {"published", "servedCache"}) =>
        NoOverlay

\* C22, amended: so it is after every queue poll that fetched from the
\* service; a poll served from the cache during a skip publishes the
\* cached view itself, overlays included.
C22_FetchedPollNoOverlay ==
    /\ (ev.who = "queuePoll" /\ ev.act = "published") => NoOverlay
    /\ (ev.who = "queuePoll" /\ ev.act = "servedCache") => queueData = ev.resp

\* A poll has published while an enqueue whose placeholder was in the
\* cache was still pending and after a skip had put its target in the
\* playing slot of the cache.
C22_Witness ==
    /\ ev.who = "queuePoll" /\ ev.act = "published"
    /\ \E e \in EnqOps : enq[e].mut = "pending" /\ Truthy(enq[e].previousQueue)
    /\ \E s \in SkipOps :
          /\ skip[s].pc \in {"success", "error"}
          /\ skip[s].target \in Range(Ids(skip[s].previousQueue.queue))
    /\ Truthy(queueData)

\* The strip step of enqueue e runs in this step.
Strips(e) == enq[e].timer = "pending" /\ enq'[e].timer = "fired"

\* The identifiers of the placeholders enqueue e created.
OwnIds(e) == {"optimistic-" \o e \o "-" \o ToString(i) : i \in 1..Len(enq[e].tracks)}

\* C23: the strip step of an enqueue removes from the cached queue exactly
\* the placeholders that enqueue created: every other entry, the
\* placeholders of an overlapping enqueue included, stays, in the same
\* order, and the playing slot stays.
C23_StripOwnPlaceholders ==
    [][ \A e \in EnqOps :
          Strips(e) =>
              /\ queueData'.queue =
                    SelectSeq(queueData.queue, LAMBDA t : t.id \notin OwnIds(e))
              /\ queueData'.currently_playing = queueData.currently_playing
              /\ queueData'.has = queueData.has
      ]_vars

\* The strip step of e1 has just run on a cache that held the placeholders
\* of both enqueues; that of e2, still pending, is there, after track b.
C23_Witness ==
    /\ enq["e1"].timer = "fired"
    /\ enq["e2"].mut = "pending"
    /\ enq["e2"].previousQueue.queue =
          << Track("b"), OptTrack("e1", 1, NoSummary) >>
    /\ queueData.queue = << Track("b"), OptTrack("e2", 1, NoSummary) >>

(***************************************************************************)
(* Properties of the interceptor, checked under SpecAuth.                  *)
(***************************************************************************)
\* C24, as stated: a call whose responses keep being 401 ends in an error
\* after a bounded number of re-issued requests: the requests re-issued for
\* one getQueue call stay below the number the model follows.
C24_Original == queueFetch.reissued < MaxReissued

(***************************************************************************)
(* Properties of retrying, checked under Spec.                             *)
(***************************************************************************)
\* C25, as stated: a remote call that fails is not issued again by the
\* client: a queue fetch whose getQueue call has failed is over and its
\* failure reported, so no queue fetch is ever in a second attempt.
C25_Original == queueFetch.attempt = 0

(***************************************************************************)
(* Properties of the toggle and of the settle delay, under SpecAuto.       *)
(***************************************************************************)
\* The effect runs in this step, the last run having seen auto-mode off and
\* this one seeing it on, with the same playing track.
RunsAfterReEnabling ==
    /\ home'.deps # home.deps
    /\ ~home.deps.isAutoMode
    /\ home'.deps.isAutoMode
    /\ home'.deps.currently_playing = home.deps.currently_playing

\* C26, as stated: when auto-mode is turned off and on again while the same
\* track plays, the toggle leaves the marker as it is and the marker, set
\* for that track, keeps the effect from scheduling a request for it again.
C26_Original ==
    [][ /\ autoMode'.isAutoMode # autoMode.isAutoMode =>
              autoMode'.lastAutoPromptSummary = autoMode.lastAutoPromptSummary
        /\ ( /\ RunsAfterReEnabling
             /\ queueData.currently_playing.id \in home.armedFor
             /\ autoMode.lastAutoPromptSummary.id = queueData.currently_playing.id
           ) => home'.timeoutId # "pending"
      ]_vars

(***************************************************************************)
(* Properties of registration, checked under Spec.                         *)
(***************************************************************************)
\* Enqueue e settles in this step: its mutationFn returns or throws.
Settles(e) == enq[e].mut = "pending" /\ enq'[e].mut \in {"success", "error"}

\* C27, as stated: when an enqueue settles, every track it has added to the
\* service's queue is registered in the tracker, whatever became of its
\* playback query, of its start of playback and of its other searches.
C27_Original ==
    [][ \A e \in EnqOps :
          Settles(e) => \A id \in RemoteAdded(e) : isUserQueued(userQueuedTracks', id)
      ]_vars

(***************************************************************************)
(* The specification of two overlapping skips: track a plays, tracks b and *)
(* c are queued and registered, the page shows them, and the listener      *)
(* clicks on one and then on the other.                                    *)
(***************************************************************************)
InitTwoSkips ==
    /\ remote = [current |-> "a", queue |-> << "b", "c" >>, playing |-> TRUE]
    /\ userQueuedTracks = { [id |-> id, addedAt |-> 0] : id \in {"b", "c"} }
    /\ queueData = filterUserQueue(RemoteQueueResponse, userQueuedTracks)
    /\ queueFetch = IdleFetch
    /\ playbackData = NoPlaybackData
    /\ lastPlayingTrackId = NoId
    /\ globalIsSkipping = FALSE
    /\ isAuthenticated = TRUE
    /\ now = 0
    /\ autoMode = IdleAutoMode
    /\ home = IdleHome
    /\ enq = [e \in EnqOps |-> IdleEnq]
    /\ skip = [s \in SkipOps |-> IdleSkip]
    /\ trackContexts = {}
    /\ auth = SignedIn
    /\ ev = Quiet

SkipTo(s) ==
    \/ \E targetTrackId \in {"b", "c"} : SkipStart(s, targetTrackId)
    \/ SkipGotQueue(s)
    \/ SkipGetQueueFail(s)
    \/ SkipCall(s)
    \/ SkipCallFail(s)
    \/ SkipTimer(s)

NextTwoSkips ==
    \/ QueueFetchStart
    \/ QueueFetchComplete
    \/ SkipTo("s1")
    \/ SkipTo("s2")

SpecTwoSkips == InitTwoSkips /\ [][NextTwoSkips]_vars

\* C28, as stated: while a skip is still fetching the queue or issuing
\* skip calls, the poll-suspend flag is set, whatever another skip that
\* overlapped it has done.
C28_Original ==
    (\E s \in SkipOps : skip[s].pc \in {"fetchingQueue", "skipping"}) =>
        globalIsSkipping

\* C29, as stated: once the strip step of an enqueue has run, none of its
\* placeholders is in the cached view again, whatever an overlapping
\* enqueue or skip rolls back.
C29_Original ==
    \A e \in EnqOps :
        enq[e].timer \in {"fired", "polled", "done"} =>
            \A i \in 1..Len(queueData.queue) :
                queueData.queue[i].id \notin OwnIds(e)

\* The placeholders of e are stripped: its strip step has run.
Stripped(e) == enq[e].timer \in {"fired", "polled", "done"}

\* A placeholder of e is in the queue of the view q.
ShowsOwn(q, e) == \E i \in 1..Len(q.queue) : q.queue[i].id \in OwnIds(e)

\* The snapshots of the mutations other than e.
OtherSnapshots(e) ==
    {enq[o].previousQueue : o \in EnqOps \ {e}} \cup
    {skip[s].previousQueue : s \in SkipOps}

\* C29, amended: the strip step of an enqueue leaves none of its
\* placeholders in the cached view, and afterwards they are in the view
\* again only when another enqueue or a skip rolls the view back to its
\* snapshot, taken while they were present.
C29_ReappearOnlyByRollback ==
    [][ \A e \in EnqOps :
          /\ Strips(e) => ~ShowsOwn(queueData', e)
          /\ (Stripped(e) /\ ~ShowsOwn(queueData, e) /\ ShowsOwn(queueData', e)) =>
                /\ ev'.act = "rolledBack"
                /\ queueData' \in OtherSnapshots(e)
      ]_vars

\* The placeholder of e1, stripped, is in the cached view again after the
\* rollback of e2.
C29_Witness ==
    /\ Stripped("e1")
    /\ ShowsOwn(queueData, "e1")
    /\ ev = EvMutation("enqueue", "e2", "rolledBack")
    /\ queueData = enq["e2"].previousQueue

\* The event the pending timer was scheduled for is over: auto-mode is off,
\* nothing plays, or another track plays than the one of the marker.
EventOver ==
    \/ ~autoMode.isAutoMode
    \/ ~playbackData.is_playing
    \/ queueData.currently_playing.id # autoMode.lastAutoPromptSummary.id

\* The effect runs in this step.
EffectRuns == home'.deps # home.deps

\* C30: when auto-mode is turned off, playback stops or the playing track
\* changes while a timer of the effect is pending, the run of the effect
\* that sees the change clears the timer and no request is made for the old
\* event: a timer pending after that run is a new one, scheduled for the
\* track that plays now.
C30_ChangeCancelsPending ==
    [][ (home.timeoutId = "pending" /\ EventOver /\ EffectRuns) =>
            /\ home'.requests = home.requests
            /\ home'.timeoutId = "pending" =>
                  /\ queueDepleted
                  /\ autoMode'.lastAutoPromptSummary.id = queueData.currently_playing.id
                  /\ autoMode'.lastAutoPromptSummary # autoMode.lastAutoPromptSummary
      ]_vars

\* Auto-mode was turned off while a timer for track a was pending; the
\* effect has run and no timer is left, nor any request.
C30_Witness ==
    /\ ev.who = "effect" /\ ev.act = "cleared"
    /\ ~autoMode.isAutoMode
    /\ playbackData.is_playing
    /\ autoMode.lastAutoPromptSummary.id = queueData.currently_playing.id
    /\ home.timeoutId = "none"
    /\ home.requests = << >>

(***************************************************************************)
(* The second copy of Home in Home.tsx (from line 1070): its auto-mode     *)
(* effect keeps the prompt summary of the playing track as the marker,     *)
(* does not list is_playing among its dependencies and returns no cleanup. *)
(***************************************************************************)
\* The marker of this copy: currentTrack.promptSummary.
SummaryKey(summary) == TriggerKey(summary, -1)

\* track.promptGroupId: the prompt of the track's provenance entry.
promptGroupId(contexts, id) ==
    IF \E c \in contexts : c.trackId = id
    THEN (CHOOSE c \in contexts : c.trackId = id).promptId
    ELSE "none"

\* The dependency list of this effect, as the last render saw it.
SummaryDeps == [Deps EXCEPT !.is_playing = FALSE]

\* The body of this effect up to its test of the marker: auto-mode is on,
\* something plays, the playing track has a prompt that is not an
\* auto-continue, and no queued track is of the same prompt.
remainingFromGroup ==
    SelectSeq(queueData.queue,
              LAMBDA t : promptGroupId(trackContexts, t.id) =
                         promptGroupId(trackContexts, queueData.currently_playing.id))

groupDepleted ==
    /\ autoMode.isAutoMode
    /\ playbackData.is_playing
    /\ queueData.currently_playing.id # NoId
    /\ promptGroupId(trackContexts, queueData.currently_playing.id) # "none"
    /\ queueData.currently_playing.promptSummary # NoSummary
    /\ ~startsWithAuto(queueData.currently_playing.promptSummary)
    /\ Len(remainingFromGroup) = 0

\* A render committed with a changed dependency: the effect runs; a timer
\* of an earlier run stays.  One pending timer stands for all of them.
SummaryEffectRun ==
    /\ SummaryDeps # home.deps
    /\ LET marker == SummaryKey(queueData.currently_playing.promptSummary)
           arms == groupDepleted /\ autoMode.lastAutoPromptSummary # marker
       IN  /\ autoMode' = IF arms
                          THEN [autoMode EXCEPT !.lastAutoPromptSummary = marker]
                          ELSE autoMode
           /\ home' = [home EXCEPT !.deps = SummaryDeps,
                                   !.timeoutId = IF arms THEN "pending" ELSE @,
                                   !.armedFor =
                                       IF arms
                                       THEN @ \cup {queueData.currently_playing.id}
                                       ELSE @]
    /\ ev' = Quiet
    /\ UNCHANGED << remote, queueData, queueFetch, playbackData,
                    lastPlayingTrackId, userQueuedTracks, globalIsSkipping,
                    isAuthenticated, now, enq, skip, trackContexts, auth >>

\* The timer, 2 s on: handleAutoContinue asks for recommendations unless a
\* request is loading; setIsLoading renders Home with a new callback.
SummaryTimerFires ==
    /\ home.timeoutId = "pending"
    /\ home' = [home EXCEPT !.timeoutId = "none",
                            !.isLoading = TRUE,
                            !.handleAutoContinue =
                                IF home.isLoading THEN @ ELSE 1 - @,
                            !.requests =
                                IF home.isLoading THEN @
                                ELSE Append(@, queueData.currently_playing.id)]
    /\ ev' = IF home.isLoading THEN Quiet
             ELSE [Quiet EXCEPT !.who = "effect", !.act = "requested"]
    /\ UNCHANGED << remote, queueData, queueFetch, playbackData,
                    lastPlayingTrackId, userQueuedTracks, globalIsSkipping,
                    isAuthenticated, now, autoMode, enq, skip, trackContexts,
                    auth >>

\* Tracks a and b of one prompt of the listener; a plays.
SummaryContexts ==
    {Context("a", "prompt-1", "late night jazz", FALSE),
     Context("b", "prompt-1", "late night jazz", FALSE)}

InitSummary ==
    /\ remote \in { [current |-> "a", queue |-> q, playing |-> TRUE] :
                      q \in { << >>, << "b" >> } }
    /\ userQueuedTracks = { [id |-> id, addedAt |-> 0] : id \in {"a", "b"} }
    /\ queueData = NoQueueData
    /\ queueFetch = IdleFetch
    /\ playbackData = NoPlaybackData
    /\ lastPlayingTrackId = NoId
    /\ globalIsSkipping = FALSE
    /\ isAuthenticated = TRUE
    /\ now = 0
    /\ autoMode = IdleAutoMode
    /\ home = IdleHome
    /\ enq = [e \in EnqOps |-> IdleEnq]
    /\ skip = [s \in SkipOps |-> IdleSkip]
    /\ trackContexts = SummaryContexts
    /\ auth = SignedIn
    /\ ev = Quiet

NextSummary ==
    \/ Environment
    \/ RemotePause
    \/ Pollers
    \/ ToggleAutoMode
    \/ SummaryEffectRun
    \/ SummaryTimerFires

SpecSummary == InitSummary /\ [][NextSummary]_vars

\* C30: a request of the auto-continue is made only while auto-mode is on,
\* something plays, and the playing track is the one of the marker: a
\* timer whose event is over makes no request.
C30_Original ==
    (ev.who = "effect" /\ ev.act = "requested") =>
        /\ autoMode.isAutoMode
        /\ playbackData.is_playing
        /\ SummaryKey(queueData.currently_playing.promptSummary) =
               autoMode.lastAutoPromptSummary

====
